---- MODULE Spec2Model ----
(***************************************************************************)
(* Piece table of the pk editor (pk-common/src/piece_table.rs) as a state  *)
(* machine.  Text is a sequence of bytes, as a Rust String is; indices are *)
(* byte offsets; a Vec index i of the source is the (i+1)-th element of    *)
(* the sequence here.  A Rust panic is the flag panicked, after which the  *)
(* table takes no further call.                                            *)
(***************************************************************************)
EXTENDS Integers, Sequences, FiniteSets, TLC

VARIABLES
    sources,          \* PieceTable::sources
    pieces,           \* PieceTable::pieces
    history,          \* PieceTable::history
    next_action_id,   \* PieceTable::next_action_id
    mutator,          \* the TableMutator in the caller's hands, if any
    panicked,         \* a call panicked
    last,             \* the last call: name, arguments, table before, result
    before,           \* for each action of history, sources and pieces before its call
    session,          \* the open mutator's call: table before, index, typed text
    replica,          \* a second PieceTable, kept up to date through apply_action
    pending_buf,      \* NormalMode::pending_buf
    parsed,           \* the last string given to Command::parse, and its result
    mode,             \* the tag of the editor's current mode
    cursor_index,     \* Buffer::cursor_index
    registers,        \* EditorState::registers
    last_command,     \* EditorState::last_command
    handled,          \* the last event a mode handled: the state before it, its outcome
    dropped,          \* the mutators that went out of scope without finish
    current_query,    \* Buffer::current_query
    open_files,       \* Server::open_files of pk-server
    next_file_id,     \* Server::next_file_id
    reply,            \* the last request the server processed, its response, the files before it
    version,          \* Buffer::version
    currently_in_conflict,   \* Buffer::currently_in_conflict
    requests,         \* the requests sent and not yet processed by the server
    replies,          \* the responses sent, with the closures that wait for them
    last_synced_action_ids,  \* AutosyncWorker::last_synced_action_ids, for the buffer
    next_msg_id,      \* Server::next_msg_id of the client
    responses,        \* the keys of Server::responses
    wakers,           \* the keys of Server::wakers
    responses_lock,   \* who holds the mutex of Server::responses
    tasks,            \* per request, the task that polls its FutureResponse
    callbacks,        \* per request, the receive callback of its Aio
    next_pid,         \* Scheduler::next_pid
    injector,         \* Scheduler::injector, oldest first
    work_qus,         \* per worker thread, its queue, oldest first
    running,          \* per worker thread, the task find_task gave it
    procs,            \* per spawned process, its channel, supervisor and what it was passed
    main_rx           \* the channel of pid 0

\* What lies outside the table and its mutator.
client == <<pending_buf, parsed, mode, cursor_index, registers, last_command, handled,
           dropped>>
\* What lies outside the editing session: the search, the servers, the
\* schedulers.
server == <<open_files, next_file_id, reply>>
sync == <<version, currently_in_conflict, requests, replies, last_synced_action_ids>>
futures == <<next_msg_id, responses, wakers, responses_lock, tasks, callbacks>>
sched == <<next_pid, injector, work_qus, running, procs, main_rx>>
world == <<current_query, server, sync, sched, futures, sched>>
outside == <<replica, client, world>>
vars == <<sources, pieces, history, next_action_id, mutator, panicked, last, before, session,
          outside>>
table == <<sources, pieces, history, next_action_id>>

\* ------------------------------------------------------------------ bounds
\* Forward calls (action ids consumed) per behaviour.
MaxActions == 1
\* Forward calls per behaviour of the editing calls alone.
MaxEdits == 3
\* Forward calls per behaviour of the editing calls with the queries.
MaxQueryEdits == 2
\* Bytes typed through one mutator.
MaxTyped == 2
\* Length of the text an insert_range may produce.
MaxLen == 4
\* Action ids consumed per behaviour of the calls that write the undo log.
MaxLogActions == 2
\* Forward calls per behaviour of a table that a replica follows.
MaxReplicaEdits == 3
\* The keys of the longest pending command.
MaxPending == 6
\* The keys of the longest pending command of an editing session.
MaxClientPending == 4
\* The action ids an editing session may start a command with.
MaxClientActions == 3
\* The events of an editing session.
MaxEvents == 5
\* the length of a text the motions are run on
MaxMotionLen == 3

\* The length of a text that is searched for a query.
MaxSearchLen == 3

\* The keys of the longest string given to the parser as a whole.
MaxPrefixLen == 4

\* The count of a motion.
MaxCount == 2

\* The greatest version a SyncFile request carries.
MaxVersion == 3
\* The files the server opens in one behaviour.
MaxFiles == 2

\* The edits of a buffer that is kept in step with the server.
MaxSyncEdits == 2
\* The requests and responses on their way at one time.
MaxInFlight == 2
\* The version above which no sync is asked for by hand.
MaxSyncVersion == 2
\* The requests made through Server::request.
MaxRequests == 2
\* The worker threads of the scheduler, the processes spawned and the
\* messages sent to each.
NumThreads == 2
MaxProcs == 3
MaxMsgs == 2

\* ------------------------------------------------------------------ inputs
\* The two bytes of a two-byte UTF-8 character, and one-byte characters.
Lead == "C3"
Cont == "A9"
WideChar == <<Lead, Cont>>
CharSet == {<<"a">>, WideChar}
SearchChars == {<<"a">>, <<"b">>, WideChar}
InitTexts == {<< >>, <<"a", "b">>}
InsertTexts == {<< >>, <<"b">>, <<"a", "b">>}

\* ------------------------------------------------------------------ values
\* Option<T>: None, or Some(x) as a one-element tuple.
None == << >>
Some(x) == <<x>>
IsSome(o) == Len(o) = 1
Unwrap(o) == o[1]

\* A call's outcome: its value, or a panic.
Ok(v) == [ok |-> TRUE, v |-> v]
Err == [ok |-> FALSE, v |-> << >>]

\* The result of a slice or text() that panicked.
Panicked == <<"!panic">>

NoMutator == [open |-> FALSE]
NoSession == [open |-> FALSE]

Min(a, b) == IF a <= b THEN a ELSE b

\* ------------------------------------------------------------------ strings
\* str::is_char_boundary: 0, the length, or a byte that starts a character.
is_char_boundary(s, i) ==
    \/ i = 0
    \/ i = Len(s)
    \/ (i > 0 /\ i < Len(s) /\ s[i + 1] # Cont)

\* &s[lo..hi]: panics when out of range or not on character boundaries.
Slice(s, lo, hi) ==
    IF lo <= hi /\ hi <= Len(s) /\ is_char_boundary(s, lo) /\ is_char_boundary(s, hi)
    THEN SubSeq(s, lo + 1, hi)
    ELSE Panicked

\* String::pop: removes the last character, all its bytes.
StringPop(s) ==
    IF Len(s) = 0 THEN s
    ELSE IF s[Len(s)] = Cont THEN SubSeq(s, 1, Len(s) - 2)
    ELSE SubSeq(s, 1, Len(s) - 1)

\* ------------------------------------------------------------------ pieces
Piece(src, st, len) == [source |-> src, start |-> st, length |-> len]

\* Piece::split
split(p, at) == <<Piece(p.source, p.start, at), Piece(p.source, p.start + at, p.length - at)>>

\* Vec::insert(i, x), Vec::remove(i) and v[i] = x, for 0 <= i in range.
VecInsert(v, i, x) == SubSeq(v, 1, i) \o <<x>> \o SubSeq(v, i + 1, Len(v))
VecRemove(v, i) == SubSeq(v, 1, i) \o SubSeq(v, i + 2, Len(v))
VecSet(v, i, x) == [v EXCEPT ![i + 1] = x]

\* PieceTable::len over the first n pieces: the global index of piece n.
RECURSIVE Offset(_, _)
Offset(ps, n) == IF n = 0 THEN 0 ELSE Offset(ps, n - 1) + ps[n].length

len(ps) == Offset(ps, Len(ps))

\* The slice of its source a piece stands for.
PieceText(srcs, p) ==
    IF p.source < Len(srcs)
    THEN Slice(srcs[p.source + 1], p.start, p.start + p.length)
    ELSE Panicked

\* PieceTable::text
RECURSIVE TextUpTo(_, _, _)
TextUpTo(ps, srcs, n) ==
    IF n = 0 THEN << >>
    ELSE LET head == TextUpTo(ps, srcs, n - 1)
             tail == PieceText(srcs, ps[n])
         IN  IF head = Panicked \/ tail = Panicked THEN Panicked ELSE head \o tail

text(ps, srcs) == TextUpTo(ps, srcs, Len(ps))

\* ------------------------------------------------------------------ changes
Insert(i, new) == [kind |-> "Insert", piece_index |-> i, new |-> new]
Modify(i, old, new) == [kind |-> "Modify", piece_index |-> i, old |-> old, new |-> new]
Delete(i, old) == [kind |-> "Delete", piece_index |-> i, old |-> old]

\* Action::new without the increment of next_action_id.
ActionNew_keeps_id(id) == [action |-> [changes |-> << >>, id |-> id], next_action_id |-> id]

\* Action::new on a table whose next_action_id is id: the action it returns
\* and the next_action_id it leaves.
ActionNew(id) == [action |-> [changes |-> << >>, id |-> id], next_action_id |-> id + 1]

\* The table as one value, for the snapshots the properties compare.
Table == [sources |-> sources, pieces |-> pieces, history |-> history,
          next_action_id |-> next_action_id]

\* What the properties of undo keep of the table before the call op.
Snapshot(t, op) == [sources |-> t.sources, pieces |-> t.pieces, op |-> op]

\* ------------------------------------------------------------------ insert
\* The index of the first piece whose span [ix, ix+length] holds index, or -1.
RECURSIVE FindPiece(_, _, _, _)
FindPiece(ps, index, i, ix) ==
    IF i >= Len(ps) THEN -1
    ELSE IF index >= ix /\ index <= ix + ps[i + 1].length THEN i
    ELSE FindPiece(ps, index, i + 1, ix + ps[i + 1].length)

\* insert_raw_piece putting the new piece before a piece it should follow.
insert_raw_changes_before(ps, index, new_piece) ==
    LET i == FindPiece(ps, index, 0, 0)
        ix == Offset(ps, i)
        p == ps[i + 1]
    IN  IF i = -1 THEN << >>
        ELSE IF index = ix \/ index = ix + p.length THEN <<Insert(i, new_piece)>>
        ELSE <<Modify(i, p, split(p, index - ix)[1]),
               Insert(i + 1, new_piece),
               Insert(i + 2, split(p, index - ix)[2])>>

\* PieceTable::insert_raw_piece: the changes it records, in order.
insert_raw_changes(ps, index, new_piece) ==
    LET i == FindPiece(ps, index, 0, 0)
        ix == Offset(ps, i)
        p == ps[i + 1]
    IN  IF i = -1 THEN << >>
        ELSE IF index = ix THEN <<Insert(i, new_piece)>>
        ELSE IF index = ix + p.length THEN <<Insert(i + 1, new_piece)>>
        ELSE <<Modify(i, p, split(p, index - ix)[1]),
               Insert(i + 1, new_piece),
               Insert(i + 2, split(p, index - ix)[2])>>

\* PieceTable::enact_change on the piece sequence; the code applies each
\* change to self.pieces as it records it.
enact_change(ps, c) ==
    IF c.kind = "Insert" THEN
        IF c.piece_index <= Len(ps) THEN Ok(VecInsert(ps, c.piece_index, c.new)) ELSE Err
    ELSE IF c.kind = "Modify" THEN
        IF c.piece_index < Len(ps) THEN Ok(VecSet(ps, c.piece_index, c.new)) ELSE Err
    ELSE
        IF c.piece_index < Len(ps) THEN Ok(VecRemove(ps, c.piece_index)) ELSE Err

RECURSIVE enact_changes(_, _, _)
enact_changes(ps, cs, n) ==
    IF n = 0 THEN Ok(ps)
    ELSE LET prev == enact_changes(ps, cs, n - 1)
         IN  IF ~prev.ok THEN Err ELSE enact_change(prev.v, cs[n])

\* apply_action without the check of the id.
apply_action_rewinds(ps, next, a) ==
    LET r == enact_changes(ps, a.changes, Len(a.changes))
    IN  IF r.ok THEN [ok |-> TRUE, pieces |-> r.v, next_action_id |-> a.id + 1]
        ELSE [ok |-> FALSE, pieces |-> ps, next_action_id |-> next]

\* apply_action that leaves next_action_id as it finds it.
apply_action_keeps_next(ps, next, a) ==
    LET r == enact_changes(ps, a.changes, Len(a.changes))
    IN  IF a.id < next THEN [ok |-> FALSE, pieces |-> ps, next_action_id |-> next]
        ELSE IF r.ok THEN [ok |-> TRUE, pieces |-> r.v, next_action_id |-> next]
        ELSE [ok |-> FALSE, pieces |-> ps, next_action_id |-> next]

\* PieceTable::apply_action(a) on the pieces ps of a table whose
\* next_action_id is next: a stale id panics before anything changes, and so
\* does a change whose index is out of range.
apply_action(ps, next, a) ==
    LET r == enact_changes(ps, a.changes, Len(a.changes))
    IN  IF a.id < next THEN [ok |-> FALSE, pieces |-> ps, next_action_id |-> next]
        ELSE IF r.ok THEN [ok |-> TRUE, pieces |-> r.v, next_action_id |-> a.id + 1]
        ELSE [ok |-> FALSE, pieces |-> ps, next_action_id |-> next]

\* PieceTable::get_changes_from(id): the actions of history h with an id of
\* at least id, in the order of h.
get_changes_from(h, id) == SelectSeq(h, LAMBDA a : a.id >= id)

\* apply_action of the first n actions of as, one after the other; a panic
\* ends the run.
RECURSIVE apply_actions(_, _, _, _)
apply_actions(ps, next, as, n) ==
    IF n = 0 THEN [ok |-> TRUE, pieces |-> ps, next_action_id |-> next]
    ELSE LET prev == apply_actions(ps, next, as, n - 1)
         IN  IF ~prev.ok THEN prev
             ELSE apply_action(prev.pieces, prev.next_action_id, as[n])

\* ------------------------------------------------------------------ undo
\* PieceTable::reverse_change
reverse_change(ps, c) ==
    IF c.kind = "Insert" THEN
        IF c.piece_index < Len(ps) THEN Ok(VecRemove(ps, c.piece_index)) ELSE Err
    ELSE IF c.kind = "Modify" THEN
        IF c.piece_index < Len(ps) THEN Ok(VecSet(ps, c.piece_index, c.old)) ELSE Err
    ELSE
        IF c.piece_index <= Len(ps) THEN Ok(VecInsert(ps, c.piece_index, c.old)) ELSE Err

\* The loop of PieceTable::undo: changes n, n-1, ..., 1 reversed in that order.
RECURSIVE reverse_changes(_, _, _)
reverse_changes(ps, cs, n) ==
    IF n = 0 THEN Ok(ps)
    ELSE LET nxt == reverse_change(ps, cs[n])
         IN  IF ~nxt.ok THEN Err ELSE reverse_changes(nxt.v, cs, n - 1)

\* ------------------------------------------------------------------ delete
\* The scan loop of PieceTable::delete_range from piece i on, global_index gi:
\* either the piece that holds the whole range (the early return), or the
\* start piece, the end piece and the pieces between as the loop leaves them.
RECURSIVE delete_scan(_, _, _, _, _, _)
delete_scan(ps, start, end, i, gi, acc) ==
    IF i >= Len(ps) THEN acc
    ELSE LET p == ps[i + 1]
             rest(a) == delete_scan(ps, start, end, i + 1, gi + p.length, a)
         IN  IF start < gi /\ end >= gi + p.length
             THEN rest([acc EXCEPT !.mid_pieces = Append(@, i)])
             ELSE IF start >= gi /\ start < gi + p.length
             THEN IF end >= gi /\ end <= gi + p.length
                  THEN [acc EXCEPT !.single = Some(<<i, gi>>)]
                  ELSE rest([acc EXCEPT !.start_piece = Some(<<i, start - gi>>)])
             ELSE IF end >= gi /\ end < gi + p.length
             THEN rest([acc EXCEPT !.end_piece = Some(<<i, end - gi>>)])
             ELSE rest(acc)

delete_scan_all(ps, start, end) ==
    delete_scan(ps, start, end, 0, 0,
                [single |-> None, start_piece |-> None, end_piece |-> None,
                 mid_pieces |-> << >>])

\* The changes of the range inside one piece i at global index gi.
delete_single_changes(ps, start, end, i, gi) ==
    LET p == ps[i + 1]
        left_keep == split(p, start - gi)[1]
        deleted_right == split(p, start - gi)[2]
        right_keep == split(deleted_right, end - (gi + left_keep.length))[2]
    IN  IF left_keep.length = 0
        THEN <<Modify(i, p, right_keep)>>
        ELSE <<Modify(i, p, left_keep), Insert(i + 1, right_keep)>>

\* The Delete changes of the pieces between, in the order and with the
\* indices the code records: mid_pieces order, each its index before the call.
RECURSIVE delete_mid_changes(_, _, _)
delete_mid_changes(ps, mid_pieces, n) ==
    IF n = 0 THEN << >>
    ELSE Append(delete_mid_changes(ps, mid_pieces, n - 1),
                Delete(mid_pieces[n], ps[mid_pieces[n] + 1]))

\* The changes of a range over several pieces.
delete_multi_changes(ps, sc) ==
    LET start_piece == Unwrap(sc.start_piece)[1]
        start_cut == Unwrap(sc.start_piece)[2]
        end_piece == Unwrap(sc.end_piece)[1]
        end_cut == Unwrap(sc.end_piece)[2]
        new_start == split(ps[start_piece + 1], start_cut)[1]
        new_end == split(ps[end_piece + 1], end_cut)[2]
    IN  <<Modify(start_piece, ps[start_piece + 1], new_start),
          Modify(end_piece, ps[end_piece + 1], new_end)>>
        \o delete_mid_changes(ps, sc.mid_pieces, Len(sc.mid_pieces))

\* self.pieces after the code's own edits of a range over several pieces:
\* both ends replaced, then every index in mid_pieces filtered out at once.
RECURSIVE filter_mid(_, _, _)
filter_mid(ps, mid_pieces, n) ==
    IF n = 0 THEN << >>
    ELSE LET keep == filter_mid(ps, mid_pieces, n - 1)
         IN  IF \E k \in 1 .. Len(mid_pieces) : mid_pieces[k] = n - 1
             THEN keep ELSE Append(keep, ps[n])

delete_multi_pieces(ps, sc) ==
    LET cs == delete_multi_changes(ps, sc)
        ends == VecSet(VecSet(ps, cs[1].piece_index, cs[1].new), cs[2].piece_index, cs[2].new)
    IN  filter_mid(ends, sc.mid_pieces, Len(ends))

\* PieceTable::delete_range: [ok, pieces, changes]; not ok when an unwrap of
\* start_piece or end_piece panics.
delete_range(ps, start, end) ==
    LET sc == delete_scan_all(ps, start, end)
    IN  IF IsSome(sc.single)
        THEN LET cs == delete_single_changes(ps, start, end, Unwrap(sc.single)[1], Unwrap(sc.single)[2])
             IN  [ok |-> TRUE, changes |-> cs, pieces |-> enact_changes(ps, cs, Len(cs)).v]
        ELSE IF IsSome(sc.start_piece) /\ IsSome(sc.end_piece)
        THEN [ok |-> TRUE, changes |-> delete_multi_changes(ps, sc),
              pieces |-> delete_multi_pieces(ps, sc)]
        ELSE [ok |-> FALSE, changes |-> << >>, pieces |-> ps]

\* ------------------------------------------------------------------ mutator
\* PieceTable::insert_mutator: [ok, pieces, sources, changes, piece_ix]; not
\* ok when no piece holds index and the unwrap panics.
insert_mutator(ps, srcs, index) ==
    LET i == FindPiece(ps, index, 0, 0)
        ix == Offset(ps, i)
        p == ps[i + 1]
        fresh == Piece(Len(srcs), 0, 0)
        grown == Append(srcs, << >>)
        out(cs, ss, at) == [ok |-> TRUE, changes |-> cs, sources |-> ss, piece_ix |-> at,
                            pieces |-> enact_changes(ps, cs, Len(cs)).v]
    IN  IF i = -1
        THEN [ok |-> FALSE, changes |-> << >>, sources |-> srcs, piece_ix |-> 0, pieces |-> ps]
        ELSE IF index = ix
        THEN out(<<Insert(i, fresh)>>, grown, i)
        ELSE IF index = ix + p.length
        THEN IF Len(srcs[p.source + 1]) = p.start + p.length
             THEN out(<<Modify(i, p, p)>>, srcs, i)
             ELSE out(<<Insert(i + 1, fresh)>>, grown, i + 1)
        ELSE out(<<Modify(i, p, split(p, index - ix)[1]),
                   Insert(i + 1, fresh),
                   Insert(i + 2, split(p, index - ix)[2])>>, grown, i + 1)

\* TableMutator::push_char on the pieces and on the sources.
push_char_pieces(ps, piece_ix) ==
    VecSet(ps, piece_ix, [ps[piece_ix + 1] EXCEPT !.length = @ + 1])
push_char_sources(ps, srcs, piece_ix, c) ==
    VecSet(srcs, ps[piece_ix + 1].source, srcs[ps[piece_ix + 1].source + 1] \o c)

\* TableMutator::pop_char on the pieces and on the sources.
pop_char_pieces(ps, piece_ix) ==
    IF ps[piece_ix + 1].length = 0 THEN ps
    ELSE VecSet(ps, piece_ix, [ps[piece_ix + 1] EXCEPT !.length = @ - 1])
pop_char_sources(ps, srcs, piece_ix) ==
    IF ps[piece_ix + 1].length = 0 THEN srcs
    ELSE VecSet(srcs, ps[piece_ix + 1].source, StringPop(srcs[ps[piece_ix + 1].source + 1]))

\* TableMutator::finish: the action it pushes, with the recorded new piece
\* replaced by the piece as it is now.
finish_action(ps, m) ==
    LET ix == IF Len(m.action.changes) = 1 THEN 0 ELSE 1
    IN  [m.action EXCEPT !.changes[ix + 1].new = ps[m.piece_ix + 1]]

\* ------------------------------------------------------------------ queries
\* The loop of PieceTable::copy_range from piece i on, global_index gi, with
\* buf what was copied so far; Panicked when a slice panics.
RECURSIVE copy_scan(_, _, _, _, _, _, _)
copy_scan(ps, srcs, start, end, i, gi, buf) ==
    IF buf = Panicked \/ i >= Len(ps) THEN buf
    ELSE LET p == ps[i + 1]
             src == srcs[p.source + 1]
             push(sl) == IF sl = Panicked THEN Panicked ELSE buf \o sl
             rest(b) == copy_scan(ps, srcs, start, end, i + 1, gi + p.length, b)
         IN  IF p.length = 0 THEN copy_scan(ps, srcs, start, end, i + 1, gi, buf)
             ELSE IF start <= gi /\ end >= gi + p.length
             THEN rest(push(Slice(src, p.start, p.start + p.length)))
             ELSE IF start >= gi /\ start < gi + p.length
             THEN IF (end > gi /\ end < gi + p.length) \/ start = end
                  THEN push(Slice(src, p.start + (start - gi), p.start + (end - gi)))
                  ELSE rest(push(Slice(src, (p.start + start) - gi, p.start + p.length)))
             ELSE IF end >= gi /\ end < gi + p.length
             THEN rest(push(Slice(src, p.start, (p.start + end) - gi)))
             ELSE rest(buf)

\* copy_range taking end as the last index copied.
copy_range_inclusive(ps, srcs, start, end) ==
    copy_scan(ps, srcs, start, Min(end + 1, len(ps)), 0, 0, << >>)

\* PieceTable::copy_range
copy_range(ps, srcs, start, end) == copy_scan(ps, srcs, start, end, 0, 0, << >>)

\* str::find and str::rfind for a predicate on characters, given as the set
\* of the characters it holds of: the byte offset of the first and of the last
\* such character. A character is found by its first byte.
str_find(s, pred) ==
    LET hits == {j \in 0 .. Len(s) - 1 : \E c \in pred : s[j + 1] = c[1]}
    IN  IF hits = {} THEN None ELSE Some(CHOOSE j \in hits : \A k \in hits : j <= k)
str_rfind(s, pred) ==
    LET hits == {j \in 0 .. Len(s) - 1 : \E c \in pred : s[j + 1] = c[1]}
    IN  IF hits = {} THEN None ELSE Some(CHOOSE j \in hits : \A k \in hits : j >= k)

\* The loop of PieceTable::index_of_pred from piece i on; Err when a slice
\* panics.
RECURSIVE index_of_scan(_, _, _, _, _, _)
index_of_scan(ps, srcs, pred, start, i, gi) ==
    IF i >= Len(ps) THEN Ok(None)
    ELSE LET p == ps[i + 1]
             next(g) == index_of_scan(ps, srcs, pred, start, i + 1, g)
             search_start_in_piece == IF start >= gi /\ start < gi + p.length THEN start - gi ELSE 0
             sl == Slice(srcs[p.source + 1], p.start + search_start_in_piece, p.start + p.length)
         IN  IF gi + p.length <= start THEN next(gi + p.length)
             ELSE IF sl = Panicked THEN Err
             ELSE IF IsSome(str_find(sl, pred))
             THEN Ok(Some(search_start_in_piece + Unwrap(str_find(sl, pred)) + gi))
             ELSE next(gi + p.length)

\* PieceTable::index_of_pred and PieceTable::index_of
index_of_pred(ps, srcs, pred, start) == index_of_scan(ps, srcs, pred, start, 0, 0)
index_of(ps, srcs, sc, start) == index_of_pred(ps, srcs, {sc}, start)

\* The loop of PieceTable::last_index_of_pred over pieces n, n-1, ..., 1, with
\* gie the global index of the end of piece n.
RECURSIVE last_index_of_scan(_, _, _, _, _, _)
last_index_of_scan(ps, srcs, pred, start, n, gie) ==
    IF n = 0 THEN Ok(None)
    ELSE LET p == ps[n]
             next == last_index_of_scan(ps, srcs, pred, start, n - 1, gie - p.length)
             piece_local_start == start - (gie - p.length)
             inner == Slice(srcs[p.source + 1], p.start, p.start + piece_local_start)
             whole == Slice(srcs[p.source + 1], p.start, p.start + p.length)
             found(sl) == IF sl = Panicked THEN Err
                          ELSE IF IsSome(str_rfind(sl, pred))
                          THEN Ok(Some((gie - p.length) + Unwrap(str_rfind(sl, pred))))
                          ELSE next
         IN  IF start <= gie - p.length THEN next
             ELSE IF start > gie - p.length /\ start <= gie THEN found(inner)
             ELSE found(whole)

\* last_index_of searching the index start too.
last_index_of_inclusive(ps, srcs, c, start) ==
    last_index_of_scan(ps, srcs, {c}, start + 1, Len(ps), len(ps))

\* PieceTable::last_index_of_pred and PieceTable::last_index_of
last_index_of_pred(ps, srcs, pred, start) ==
    last_index_of_scan(ps, srcs, pred, start, Len(ps), len(ps))
last_index_of(ps, srcs, c, start) == last_index_of_pred(ps, srcs, {c}, start)

\* PieceTable::chars(index): the piece that holds index and the offset of
\* index in it; None where the code panics (index is not below len()).
RECURSIVE chars(_, _, _, _)
chars(ps, index, pi, global_index) ==
    IF pi >= Len(ps) THEN None
    ELSE IF index >= global_index /\ index < global_index + ps[pi + 1].length
    THEN Some([current_piece |-> pi, current_index |-> index - global_index])
    ELSE chars(ps, index, pi + 1, global_index + ps[pi + 1].length)

\* s read from its last element to its first.
Reversed(s) == [i \in 1 .. Len(s) |-> s[Len(s) + 1 - i]]

\* Everything TableChars::next yields until it returns None, for an iterator
\* with no cur_char_iter yet.
RECURSIVE chars_next(_, _, _, _)
chars_next(ps, srcs, current_piece, current_index) ==
    IF current_piece >= Len(ps) THEN << >>
    ELSE LET curp == ps[current_piece + 1]
             here == Slice(srcs[curp.source + 1], curp.start + current_index,
                           curp.start + curp.length)
             rest == chars_next(ps, srcs, current_piece + 1, 0)
         IN  IF curp.length = 0
             THEN chars_next(ps, srcs, current_piece + 1, current_index)
             ELSE IF here = Panicked \/ rest = Panicked THEN Panicked
             ELSE here \o rest

\* Everything TableChars::next_back yields until it returns None, for an
\* iterator with no cur_char_iter yet.
RECURSIVE chars_next_back(_, _, _, _)
chars_next_back(ps, srcs, current_piece, current_index) ==
    LET curp == ps[current_piece + 1]
        end == IF current_index = 0 THEN curp.length ELSE current_index + 1
        here == Slice(srcs[curp.source + 1], curp.start, curp.start + end)
        rest == IF current_piece = 0 THEN << >>
                ELSE chars_next_back(ps, srcs, current_piece - 1, 0)
    IN  IF here = Panicked \/ rest = Panicked THEN Panicked
        ELSE Reversed(here) \o rest

\* ------------------------------------------------------------------ state
\* ------------------------------------------------------------------ commands
\* A pending command is a sequence of keys. A parser reads it from a position:
\* the number of keys consumed so far. peek is Peekable::peek at position i.
Digits == <<"0", "1", "2", "3", "4", "5", "6", "7", "8", "9">>
is_digit(c) == \E k \in 1 .. Len(Digits) : Digits[k] = c
to_digit(c) == (CHOOSE k \in 1 .. Len(Digits) : Digits[k] = c) - 1
peek(s, i) == IF i < Len(s) THEN Some(s[i + 1]) ELSE None

\* Result<_, Error> of the parsers.
ParseOk(v) == [kind |-> "Ok", v |-> v]
IncompleteCommand == [kind |-> "IncompleteCommand"]
UnknownCommand(raw) == [kind |-> "UnknownCommand", raw |-> raw]
InvalidCommand(raw) == [kind |-> "InvalidCommand", raw |-> raw]

\* take_number: the decimal number at position i, and the position after it.
RECURSIVE take_digits(_, _, _)
take_digits(s, i, num) ==
    IF i < Len(s) /\ is_digit(s[i + 1])
    THEN take_digits(s, i + 1, num * 10 + to_digit(s[i + 1]))
    ELSE [n |-> Some(num), i |-> i]

take_number(s, i) ==
    IF i < Len(s) /\ is_digit(s[i + 1])
    THEN take_digits(s, i + 1, to_digit(s[i + 1]))
    ELSE [n |-> None, i |-> i]

unwrap_or(o, d) == IF IsSome(o) THEN Unwrap(o) ELSE d

Motion(count, mo) == [count |-> count, mo |-> mo]

\* What Motion::parse returns when the keys end where a motion, or the
\* argument of one, should follow.
motion_end_unknown(wholecmd) == UnknownCommand(wholecmd)
motion_end(wholecmd) == IncompleteCommand

\* The text object named by the key after i or a.
text_object(c) ==
    CASE c = "w" -> Some(<<"Word">>)
      [] c = "W" -> Some(<<"BigWord">>)
      [] c = "p" -> Some(<<"Paragraph">>)
      [] c \in {"{", "}"} -> Some(<<"Block", "{">>)
      [] c \in {"(", ")"} -> Some(<<"Block", "(">>)
      [] c \in {"[", "]"} -> Some(<<"Block", "[">>)
      [] c \in {"<", ">"} -> Some(<<"Block", "<">>)
      [] c = "\"" -> Some(<<"Block", "\"">>)
      [] c = "'" -> Some(<<"Block", "'">>)
      [] OTHER -> None

\* Motion::parse(c, opchar, wholecmd), c at position i0 of wholecmd.
Motion_parse(s, i0, opchar, wholecmd) ==
    LET tn == take_number(s, i0)
        i == tn.i
        count == unwrap_or(tn.n, 1)
        k == peek(s, i)
        c == Unwrap(k)
        ok(mo) == ParseOk(Motion(count, mo))
        arg == peek(s, i + 1)
    IN  IF ~IsSome(k) THEN motion_end(wholecmd)
        ELSE IF c = "h" THEN ok(<<"Char", "Backward">>)
        ELSE IF c = "j" THEN ok(<<"Line", "Forward">>)
        ELSE IF c = "k" THEN ok(<<"Line", "Backward">>)
        ELSE IF c = "l" THEN ok(<<"Char", "Forward">>)
        ELSE IF c = "w" THEN ok(<<"Word", "Forward">>)
        ELSE IF c = "b" THEN ok(<<"Word", "Backward">>)
        ELSE IF c = "W" THEN ok(<<"BigWord", "Forward">>)
        ELSE IF c = "B" THEN ok(<<"BigWord", "Backward">>)
        ELSE IF c = "e" THEN ok(<<"EndOfWord", "Forward">>)
        ELSE IF c = "E" THEN ok(<<"EndOfBigWord", "Forward">>)
        ELSE IF c = "g"
        THEN IF ~IsSome(arg) THEN motion_end(wholecmd)
             ELSE IF Unwrap(arg) = "e" THEN ok(<<"EndOfWord", "Backward">>)
             ELSE IF Unwrap(arg) = "E" THEN ok(<<"EndOfBigWord", "Backward">>)
             ELSE UnknownCommand(wholecmd)
        ELSE IF c = "^" THEN ok(<<"StartOfLine">>)
        ELSE IF c = "$" THEN ok(<<"EndOfLine">>)
        ELSE IF c = "_" THEN ok(<<"WholeLine">>)
        ELSE IF c \in {"f", "F", "t", "T"}
        THEN IF ~IsSome(arg) THEN motion_end(wholecmd)
             ELSE ok(<<"NextChar", Unwrap(arg),
                       IF c \in {"t", "T"} THEN "place_before" ELSE "place_on",
                       IF c \in {"f", "t"} THEN "Forward" ELSE "Backward">>)
        ELSE IF c \in {"i", "a"} /\ IsSome(opchar)
        THEN IF ~IsSome(arg) THEN motion_end(wholecmd)
             ELSE IF ~IsSome(text_object(Unwrap(arg))) THEN UnknownCommand(wholecmd)
             ELSE ok(<<IF c = "i" THEN "Inner" ELSE "An">> \o Unwrap(text_object(Unwrap(arg))))
        ELSE IF c = ";" THEN ok(<<"RepeatNextChar", "opposite">>)
        ELSE IF IsSome(opchar) /\ Unwrap(opchar) = c THEN ok(<<"WholeLine">>)
        ELSE UnknownCommand(wholecmd)

\* The values of Command.
Move(mo) == [cmd |-> "Move", mo |-> mo]
Edit(op, op_count, mo, target_register) ==
    [cmd |-> "Edit", op |-> op, op_count |-> op_count, mo |-> mo,
     target_register |-> target_register]
Counted(cmd, count) == [cmd |-> cmd, count |-> count]
Put(count, source_register, clear_register) ==
    [cmd |-> "Put", count |-> count, source_register |-> source_register,
     clear_register |-> clear_register]
Leader(c) == [cmd |-> "Leader", c |-> c]
Viewport(mo) == [cmd |-> "Viewport", mo |-> mo]
ChangeMode(tag) == [cmd |-> "ChangeMode", mode |-> tag]

\* The operator a key names.
operator(c) ==
    CASE c = "d" -> Some(<<"Delete">>)
      [] c = "c" -> Some(<<"Change">>)
      [] c = "y" -> Some(<<"Yank">>)
      [] c = "<" -> Some(<<"Indent", "Backward">>)
      [] c = ">" -> Some(<<"Indent", "Forward">>)
      [] OTHER -> None

\* The end of Command::parse: an Edit when an operator was read, else a Move
\* whose count is multiplied by the count read before it.
parse_finish_multiplies(op, opcount, mo, target_reg) ==
    IF IsSome(op)
    THEN Edit(Unwrap(op), 1, Motion(mo.count * unwrap_or(opcount, 1), mo.mo),
              unwrap_or(target_reg, "\""))
    ELSE Move(Motion(mo.count * unwrap_or(opcount, 1), mo.mo))

parse_finish(op, opcount, mo, target_reg) ==
    IF IsSome(op)
    THEN Edit(Unwrap(op), unwrap_or(opcount, 1), mo, unwrap_or(target_reg, "\""))
    ELSE Move(Motion(mo.count * unwrap_or(opcount, 1), mo.mo))

\* Command::parse from the count on: i0 is the position after the register
\* prefix, target_reg the register it named.
parse_general(s, i0, target_reg) ==
    LET tn == take_number(s, i0)
        opcount == tn.n
        i == tn.i
        k == peek(s, i)
        c == Unwrap(k)
        arg == peek(s, i + 1)
        op == IF IsSome(k) THEN operator(c) ELSE None
        opchar == IF IsSome(op) THEN k ELSE None
        mo == Motion_parse(s, IF IsSome(op) THEN i + 1 ELSE i, opchar, s)
    IN  IF IsSome(k) /\ c = "." THEN ParseOk(Counted("Repeat", unwrap_or(opcount, 1)))
        ELSE IF IsSome(k) /\ c = "u" THEN ParseOk(Counted("Undo", unwrap_or(opcount, 1)))
        ELSE IF IsSome(k) /\ c = "U" THEN ParseOk(Counted("Redo", unwrap_or(opcount, 1)))
        ELSE IF IsSome(k) /\ c = "J" THEN ParseOk(Counted("JoinLine", unwrap_or(opcount, 1)))
        ELSE IF IsSome(k) /\ c = "x"
        THEN ParseOk(Edit(<<"Delete">>, unwrap_or(opcount, 1),
                          Motion(1, <<"Char", "Forward">>), unwrap_or(target_reg, "\"")))
        ELSE IF IsSome(k) /\ c = "p"
        THEN ParseOk(Put(unwrap_or(opcount, 1), unwrap_or(target_reg, "\""), TRUE))
        ELSE IF IsSome(k) /\ c = "P"
        THEN ParseOk(Put(unwrap_or(opcount, 1), unwrap_or(target_reg, "\""), FALSE))
        ELSE IF IsSome(k) /\ c = " "
        THEN IF IsSome(arg) THEN ParseOk(Leader(Unwrap(arg))) ELSE IncompleteCommand
        ELSE IF IsSome(k) /\ c = "z"
        THEN IF ~IsSome(arg) THEN IncompleteCommand
             ELSE IF Unwrap(arg) = "z" THEN ParseOk(Viewport([vm |-> "CursorToMiddle"]))
             ELSE IF Unwrap(arg) = "j"
             THEN ParseOk(Viewport([vm |-> "Line", dir |-> "Forward",
                                    count |-> unwrap_or(opcount, 1)]))
             ELSE IF Unwrap(arg) = "k"
             THEN ParseOk(Viewport([vm |-> "Line", dir |-> "Backward",
                                    count |-> unwrap_or(opcount, 1)]))
             ELSE UnknownCommand(s)
        ELSE IF mo.kind # "Ok" THEN mo
        ELSE ParseOk(parse_finish(op, opcount, mo.v, target_reg))

\* Command::parse(s)
Command_parse(s) ==
    LET k == peek(s, 0)
        c == Unwrap(k)
        enter(op, mo) == ParseOk(Edit(op, 1, Motion(1, mo), "\""))
    IN  IF ~IsSome(k) THEN InvalidCommand(s)
        ELSE IF c = "i" THEN ParseOk(ChangeMode(<<"Insert">>))
        ELSE IF c = "I" THEN enter(<<"MoveAndEnterMode", "Insert">>, <<"StartOfLine">>)
        ELSE IF c = "a" THEN enter(<<"MoveAndEnterMode", "Insert">>, <<"Char", "Forward">>)
        ELSE IF c = "A" THEN enter(<<"MoveAndEnterMode", "Insert">>, <<"EndOfLine">>)
        ELSE IF c = "o" THEN enter(<<"NewLineAndEnterMode", "Forward", "Insert">>,
                                   <<"Line", "Forward">>)
        ELSE IF c = "O" THEN enter(<<"NewLineAndEnterMode", "Backward", "Insert">>,
                                   <<"Line", "Backward">>)
        ELSE IF c = "v" THEN ParseOk(ChangeMode(<<"Visual">>))
        ELSE IF c = ":" THEN ParseOk(ChangeMode(<<"Command">>))
        ELSE IF c = "/" THEN ParseOk(ChangeMode(<<"Search", "Forward">>))
        ELSE IF c = "?" THEN ParseOk(ChangeMode(<<"Search", "Backward">>))
        ELSE IF c = "r"
        THEN IF IsSome(peek(s, 1))
             THEN ParseOk(Edit(<<"ReplaceChar", s[2]>>, 1, Motion(0, <<"Char", "Forward">>), "\""))
             ELSE IncompleteCommand
        ELSE IF c = "\"" THEN parse_general(s, Min(2, Len(s)), peek(s, 1))
        ELSE parse_general(s, 0, None)

\* ------------------------------------------------------------------ executor
\* The characters of a string: a lead byte and its continuation byte are one.
RECURSIVE str_chars(_)
str_chars(s) ==
    IF Len(s) = 0 THEN << >>
    ELSE IF s[1] = Lead /\ Len(s) >= 2
    THEN <<SubSeq(s, 1, 2)>> \o str_chars(SubSeq(s, 3, Len(s)))
    ELSE <<SubSeq(s, 1, 1)>> \o str_chars(SubSeq(s, 2, Len(s)))

\* PieceTable::char_at from piece i on, global_index gi.
RECURSIVE char_at_scan(_, _, _, _, _)
char_at_scan(ps, srcs, index, i, gi) ==
    IF i >= Len(ps) THEN None
    ELSE LET p == ps[i + 1]
             cs == str_chars(srcs[p.source + 1])
             n == (p.start + index) - gi
         IN  IF index >= gi /\ index < gi + p.length
             THEN IF n < Len(cs) THEN Some(cs[n + 1]) ELSE None
             ELSE char_at_scan(ps, srcs, index, i + 1, gi + p.length)

char_at(ps, srcs, index) == char_at_scan(ps, srcs, index, 0, 0)

\* char::is_whitespace and char::is_alphanumeric, by a character's first
\* byte; the two-byte character is a letter.
Blanks == {" ", "\n", "\t"}
Alphanumerics ==
    {"a", "b", "c", "d", "e", "f", "g", "h", "i", "j", "k", "l", "m", "n", "o", "p", "q",
     "r", "s", "t", "u", "v", "w", "x", "y", "z", "A", "B", "C", "D", "E", "F", "G", "H",
     "I", "J", "K", "L", "M", "N", "O", "P", "Q", "R", "S", "T", "U", "V", "W", "X", "Y",
     "Z", "0", "1", "2", "3", "4", "5", "6", "7", "8", "9", Lead}
is_whitespace(c) == c[1] \in Blanks
is_alphanumeric(c) == c[1] \in Alphanumerics

\* CharClassify::class for a character.
class(c) ==
    IF is_whitespace(c) THEN "Whitespace"
    ELSE IF ~is_alphanumeric(c) /\ c[1] # "_" THEN "Punctuation"
    ELSE "Regular"

saturating_sub(a, b) == IF a >= b THEN a - b ELSE 0

\* ------------------------------------------------------------------ motions
\* Motion::range and TextObject::range read the buffer through its table t
\* and its cursor. A usize that went below zero is written as the negative
\* number it would be: it stands for 2^64 less its size, which a build with
\* overflow checks never computes (the subtraction panics) and a build
\* without them does.

\* The one-byte characters, and a predicate on characters as the set of those
\* it holds of.
Alphabet ==
    {<<b>> : b \in (Alphanumerics \ {Lead}) \cup Blanks
                      \cup {"_", "+", "#", "!", "(", ")", "<", ">", "{", "}", "[", "]",
                            "\"", "'", ".", ",", ";", ":", "-"}}
Where(P(_)) == {c \in Alphabet : P(c)}

\* An index that wrapped is past every piece: the table's functions take it
\* as they take any index beyond len().
past(t, i) == IF i < 0 THEN len(t.pieces) + 1 ELSE i

\* The number of elements at the head of cs that are in the set stop_at's
\* complement: what a loop `while peek() is not in stop_at { next() }` consumes.
run_until(cs, stop_at) ==
    CHOOSE n \in 0 .. Len(cs) :
        /\ \A i \in 1 .. n : cs[i] \notin stop_at
        /\ n = Len(cs) \/ cs[n + 1] \in stop_at

\* The number of elements at the head of cs equal to x: what a loop
\* `while peek() == Some(x) { next() }` consumes.
run_of(cs, x) ==
    CHOOSE n \in 0 .. Len(cs) :
        /\ \A i \in 1 .. n : cs[i] = x
        /\ n = Len(cs) \/ cs[n + 1] # x

Drop(cs, n) == SubSeq(cs, n + 1, Len(cs))

\* buf.text.chars(index), forward and reversed: all it yields, or None where
\* chars panics (no piece holds index).
chars_from(t, index) ==
    LET it == chars(t.pieces, index, 0, 0)
        bytes == chars_next(t.pieces, t.sources, Unwrap(it).current_piece,
                            Unwrap(it).current_index)
    IN  IF ~IsSome(it) THEN None
        ELSE IF bytes = Panicked THEN None
        ELSE Some(str_chars(bytes))
chars_rev(t, index) ==
    LET it == chars(t.pieces, index, 0, 0)
        bytes == chars_next_back(t.pieces, t.sources, Unwrap(it).current_piece,
                                 Unwrap(it).current_index)
    IN  IF ~IsSome(it) THEN None
        ELSE IF bytes = Panicked THEN None
        ELSE Some(Reversed(str_chars(Reversed(bytes))))

\* .map(CharClassify::class), and for the big-word motions the map that
\* reads Punctuation as Regular.
classes(cs, bigword) ==
    [k \in 1 .. Len(cs) |->
        IF bigword /\ class(cs[k]) = "Punctuation" THEN "Regular" ELSE class(cs[k])]

\* Buffer::next_line_index, current_start_of_line, column_for_index and
\* last_line_index.
next_line_index(t, at) ==
    LET i == index_of(t.pieces, t.sources, <<"\n">>, past(t, at)).v
    IN  IF IsSome(i) THEN Unwrap(i) + 1 ELSE len(t.pieces)
current_start_of_line(t, at) ==
    LET i == last_index_of(t.pieces, t.sources, <<"\n">>, past(t, at)).v
    IN  IF IsSome(i) THEN Unwrap(i) + 1 ELSE 0
column_for_index(t, index) == index - current_start_of_line(t, index)
last_line_index(t, at) ==
    LET eoll == last_index_of(t.pieces, t.sources, <<"\n">>, past(t, at)).v
        i == last_index_of(t.pieces, t.sources, <<"\n">>, Unwrap(eoll)).v
    IN  IF IsSome(eoll) /\ IsSome(i) THEN Unwrap(i) + 1 ELSE 0

\* Buffer::current_column, the column of the cursor.
current_column(t, cursor) == column_for_index(t, cursor)

\* What one arm of Motion::range leaves in range.end: the index, whether a
\* subtraction went below zero on the way (low is the least value one gave),
\* and ok false when the arm panicked whatever the build (an unwrap of None,
\* chars out of bounds).
Landed(end, low) == [end |-> end, ok |-> TRUE, wrapped |-> low < 0]
Unwound == [end |-> 0, ok |-> FALSE, wrapped |-> FALSE]

\* MotionType::Word(Direction::Forward)
word_forward(t, end) ==
    LET at(i) == char_at(t.pieces, t.sources, i)
        find(pred, i) == index_of_pred(t.pieces, t.sources, pred, past(t, i)).v
        is_word(c) == is_alphanumeric(c) \/ c = <<"_">>
        blank(i) == IsSome(at(i)) /\ is_whitespace(Unwrap(at(i)))
        next_word(f) ==
            IF blank(f) THEN unwrap_or(find(Where(LAMBDA sc : ~is_whitespace(sc)), f), f)
            ELSE f
    IN  IF IsSome(at(end)) /\ is_word(Unwrap(at(end)))
        THEN Landed(next_word(unwrap_or(find(Where(LAMBDA sc : ~is_word(sc)), end), end)), 0)
        ELSE Landed(next_word(unwrap_or(
                 find(Where(LAMBDA sc : is_whitespace(sc) \/ is_word(sc)), end + 1), end)), 0)

\* MotionType::Word(Direction::Backward)
word_backward(t, end) ==
    LET it == chars_rev(t, end)
        cs == classes(Unwrap(it), FALSE)
        blanks == run_of(Drop(cs, 1), "Whitespace")
        rest == Drop(cs, 1 + blanks)
        at_blanks == end - 1 - blanks
        same == run_of(rest, rest[1])
        back == IF at_blanks < 0 THEN same ELSE Min(at_blanks, same)
        at_start == at_blanks - back
    IN  IF ~IsSome(it) THEN Unwound
        ELSE IF Len(cs) = 0 THEN Landed(0, 0)
        ELSE IF Len(rest) = 0 THEN Unwound
        ELSE IF at_start # 0 THEN Landed(at_start + 1, at_blanks)
        ELSE Landed(at_start, at_blanks)

\* MotionType::BigWord(direction), from range.start
big_word(t, start, direction) ==
    LET blank == Where(is_whitespace)
        fwd(pred, i) == index_of_pred(t.pieces, t.sources, pred, past(t, i)).v
        bwd(pred, i) == last_index_of_pred(t.pieces, t.sources, pred, past(t, i)).v
        next_blank == unwrap_or(IF direction = "Forward" THEN fwd(blank, start)
                                ELSE bwd(blank, start), start)
    IN  IF direction = "Forward"
        THEN Landed(unwrap_or(fwd(Where(LAMBDA sc : ~is_whitespace(sc)), next_blank),
                              next_blank), 0)
        ELSE IF IsSome(bwd(blank, next_blank))
        THEN Landed(Unwrap(bwd(blank, next_blank)) + 1, 0)
        ELSE Landed(0, 0)

\* MotionType::EndOfWord(Forward) | MotionType::EndOfBigWord(Forward)
end_of_word_forward(t, end, bigword) ==
    LET it == chars_from(t, end)
        cs == classes(Unwrap(it), bigword)
        starting_class == cs[1]
        rest == Drop(cs, 1)
        blanks == run_of(rest, "Whitespace")
        after == Drop(rest, blanks)
        at_blanks == end + 1 + blanks
        room == IF at_blanks < len(t.pieces) THEN len(t.pieces) - at_blanks ELSE 0
    IN  IF ~IsSome(it) THEN Unwound
        ELSE IF Len(cs) = 0 THEN Landed(0, 0)
        ELSE IF starting_class # "Whitespace" /\ Len(rest) > 0 /\ rest[1] = starting_class
        THEN Landed(end + 1 + run_of(rest, starting_class) - 1, 0)
        ELSE IF Len(after) = 0 THEN Unwound
        ELSE Landed(at_blanks + Min(room, run_of(after, after[1])) - 1, 0)

\* MotionType::EndOfWord(Backward) | MotionType::EndOfBigWord(Backward)
end_of_word_backward(t, end, bigword) ==
    LET it == chars_rev(t, end)
        cs == classes(Unwrap(it), bigword)
        starting_class == cs[1]
        rest == Drop(cs, 1)
        same == IF starting_class # "Whitespace" THEN run_of(rest, starting_class) ELSE 0
        blanks == run_of(Drop(rest, same), "Whitespace")
    IN  IF ~IsSome(it) THEN Unwound
        ELSE IF Len(cs) = 0 THEN Landed(0, 0)
        ELSE Landed(end - 1 - same - blanks, end - 1 - same - blanks)

\* MotionType::Line(direction), with the cursor's column
line(t, cursor, end, direction) ==
    LET new_line_index == IF direction = "Forward" THEN next_line_index(t, end)
                          ELSE last_line_index(t, end)
        line_len == unwrap_or(index_of(t.pieces, t.sources, <<"\n">>, new_line_index).v, 0)
                    - new_line_index
        column == current_column(t, cursor)
    IN  Landed((IF line_len < 0 THEN column ELSE Min(column, line_len)) + new_line_index,
               line_len)

\* MotionType::NextChar { c, place_before, direction }
next_char(t, end, c, place_before, direction) ==
    LET from == IF direction = "Forward" THEN end + 1 ELSE end - 1
        found == IF direction = "Forward"
                 THEN index_of_pred(t.pieces, t.sources, {c}, past(t, from)).v
                 ELSE last_index_of_pred(t.pieces, t.sources, {c}, past(t, from)).v
        on == unwrap_or(found, end)
        to == IF ~place_before THEN on
              ELSE IF direction = "Forward" THEN on - 1
              ELSE on + 1
    IN  Landed(to, Min(from, to))

\* One round of the loop of Motion::range.
Motion_step(t, cursor, start, end, mo) ==
    CASE mo = <<"Char", "Forward">> -> Landed(end + 1, 0)
      [] mo = <<"Char", "Backward">> -> Landed(end - 1, end - 1)
      [] mo[1] = "Line" -> line(t, cursor, end, mo[2])
      [] mo = <<"Word", "Forward">> -> word_forward(t, end)
      [] mo = <<"Word", "Backward">> -> word_backward(t, end)
      [] mo[1] = "BigWord" -> big_word(t, start, mo[2])
      [] mo = <<"EndOfWord", "Forward">> -> end_of_word_forward(t, end, FALSE)
      [] mo = <<"EndOfBigWord", "Forward">> -> end_of_word_forward(t, end, TRUE)
      [] mo = <<"EndOfWord", "Backward">> -> end_of_word_backward(t, end, FALSE)
      [] mo = <<"EndOfBigWord", "Backward">> -> end_of_word_backward(t, end, TRUE)
      [] mo[1] = "NextChar" -> next_char(t, end, <<mo[2]>>, mo[3] = "place_before", mo[4])

\* The loop of Motion::range: n more rounds from range.end = end.
RECURSIVE Motion_rounds(_, _, _, _, _, _)
Motion_rounds(t, cursor, end, mo, n, wrapped) ==
    IF n = 0 THEN [start |-> cursor, end |-> end, ok |-> TRUE, wrapped |-> wrapped]
    ELSE LET to == Motion_step(t, cursor, cursor, end, mo)
         IN  IF ~to.ok THEN [start |-> cursor, end |-> end, ok |-> FALSE, wrapped |-> wrapped]
             ELSE Motion_rounds(t, cursor, to.end, mo, n - 1, wrapped \/ to.wrapped)

\* matching_block_char
matching_block_char(c) ==
    CASE c = <<"{">> -> <<"}">>
      [] c = <<"(">> -> <<")">>
      [] c = <<"[">> -> <<"]">>
      [] c = <<"<">> -> <<">">>
      [] c = <<"\"">> -> <<"\"">>
      [] c = <<"'">> -> <<"'">>

\* The forward loop of TextObject::range for Block: the characters it passes
\* from the k-th of cs on, count pairs deep.
RECURSIVE block_end(_, _, _, _, _)
block_end(cs, k, count, open_char, close_char) ==
    IF k >= Len(cs) THEN k
    ELSE IF cs[k + 1] = open_char THEN block_end(cs, k + 1, count + 1, open_char, close_char)
    ELSE IF cs[k + 1] = close_char
    THEN IF count = 0 THEN k
         ELSE block_end(cs, k + 1, count - 1, open_char, close_char)
    ELSE block_end(cs, k + 1, count, open_char, close_char)

\* TextObject::range for Block(open_char); include is true for An.
TextObject_range(t, cursor, open_char, include) ==
    LET back == chars_rev(t, cursor)
        fwd == chars_from(t, cursor)
        start == cursor - run_until(Unwrap(back), {open_char})
        end == cursor + block_end(Unwrap(fwd), 0, 0, open_char, matching_block_char(open_char))
    IN  IF ~IsSome(back) \/ ~IsSome(fwd)
        THEN [start |-> cursor, end |-> cursor, ok |-> FALSE, wrapped |-> FALSE]
        ELSE IF include
        THEN [start |-> start, end |-> end, ok |-> TRUE, wrapped |-> start < 0]
        ELSE [start |-> start + 1, end |-> end - 1, ok |-> TRUE,
              wrapped |-> start < 0 \/ end < 1]

\* Motion::range(buf) for the motion m, the buffer's cursor at cursor.
Motion_range(t, cursor, m) ==
    IF m.mo[1] \in {"An", "Inner"}
    THEN TextObject_range(t, cursor, <<m.mo[3]>>, m.mo[1] = "An")
    ELSE Motion_rounds(t, cursor, cursor, m.mo, m.count, FALSE)

\* Motion::range(buf, cursor_index, multiplier) of the editor, for Char(Forward):
\* one character forward per repetition.
range(mo, cursor, multiplier) == [start |-> cursor, end |-> cursor + mo.count * multiplier]

\* MotionType::inclusive of the editor: the text objects.
inclusive(mo) == mo[1] \in {"An", "Inner"}

\* The buffer's PieceTable as a value; ok is false once a call panicked.
Buf == [sources |-> sources, pieces |-> pieces, history |-> history,
        next_action_id |-> next_action_id, ok |-> ~panicked]

\* PieceTable::delete_range on the buffer's table.
tbl_delete_range(t, start, end) ==
    LET r == delete_range(t.pieces, start, end)
        a == ActionNew(t.next_action_id)
    IN  IF ~t.ok THEN t
        ELSE IF r.ok
        THEN [t EXCEPT !.pieces = r.pieces, !.next_action_id = a.next_action_id,
                       !.history = Append(@, [a.action EXCEPT !.changes = r.changes])]
        ELSE [t EXCEPT !.ok = FALSE, !.next_action_id = a.next_action_id]

\* PieceTable::insert_mutator on the buffer's table: the table and the mutator.
tbl_insert_mutator(t, index) ==
    LET r == insert_mutator(t.pieces, t.sources, index)
        a == ActionNew(t.next_action_id)
    IN  IF ~t.ok THEN [t |-> t, m |-> NoMutator]
        ELSE IF r.ok
        THEN [t |-> [t EXCEPT !.pieces = r.pieces, !.sources = r.sources,
                              !.next_action_id = a.next_action_id],
              m |-> [open |-> TRUE, piece_ix |-> r.piece_ix,
                     action |-> [a.action EXCEPT !.changes = r.changes]]]
        ELSE [t |-> [t EXCEPT !.ok = FALSE, !.next_action_id = a.next_action_id],
              m |-> NoMutator]

\* TableMutator::push_char on the buffer's table.
tbl_push_char(t, m, c) ==
    IF ~t.ok THEN t
    ELSE [t EXCEPT !.pieces = push_char_pieces(t.pieces, m.piece_ix),
                   !.sources = push_char_sources(t.pieces, t.sources, m.piece_ix, c)]

\* PieceTable::undo on the buffer's table, and the loop of Command::Undo.
tbl_undo(t) ==
    LET action == t.history[Len(t.history)]
        ps == reverse_changes(t.pieces, action.changes, Len(action.changes))
    IN  IF ~t.ok \/ Len(t.history) = 0 THEN t
        ELSE IF ps.ok
        THEN [t EXCEPT !.pieces = ps.v, !.history = SubSeq(@, 1, Len(@) - 1)]
        ELSE [t EXCEPT !.ok = FALSE, !.history = SubSeq(@, 1, Len(@) - 1)]

\* Once the history is empty, or a call panicked, the calls left change nothing.
RECURSIVE tbl_undo_times(_, _)
tbl_undo_times(t, count) ==
    IF count = 0 \/ ~t.ok \/ Len(t.history) = 0 THEN t
    ELSE tbl_undo_times(tbl_undo(t), count - 1)

\* BTreeMap::insert on the registers.
map_insert(regs, k, v) == [x \in DOMAIN regs \cup {k} |-> IF x = k THEN v ELSE regs[x]]

NoRange == [start |-> 0, end |-> 0]

\* What Command::execute leaves: the table, the cursor, the registers, its
\* result (the mode it asks for, "None", or "Err"), the range it acted on and
\* the mutators it let go unfinished.
Outcome(t, cursor, regs, result, r, let_go) ==
    [t |-> t, cursor_index |-> cursor, registers |-> regs, result |-> result, r |-> r,
     dropped |-> let_go]

\* The loop of Edit{Change} that takes trailing whitespace out of the range.
RECURSIVE contract(_, _)
contract(t, end) ==
    LET ch == char_at(t.pieces, t.sources, saturating_sub(end, 1))
    IN  IF IsSome(ch) /\ class(Unwrap(ch)) = "Whitespace"
        THEN contract(t, saturating_sub(end, 1))
        ELSE end

\* The range of Edit{Delete | Change | Yank}: the motion's range, one longer
\* when the motion is inclusive.
edit_range(cmd, cursor) ==
    LET r == range(cmd.mo, cursor, cmd.op_count)
    IN  IF inclusive(cmd.mo.mo) THEN [r EXCEPT !.end = @ + 1] ELSE r

\* Command::execute for Edit{Delete | Change}
execute_delete(cmd, t, cursor, regs) ==
    LET r0 == edit_range(cmd, cursor)
        first == char_at(t.pieces, t.sources, r0.start)
        r == IF cmd.op = <<"Change">> /\ IsSome(first) /\ class(Unwrap(first)) # "Whitespace"
             THEN [r0 EXCEPT !.end = contract(t, r0.end)]
             ELSE r0
        copied == copy_range(t.pieces, t.sources, r.start, r.end)
        result == IF cmd.op = <<"Change">> THEN "Insert" ELSE "None"
    IN  IF r0.start = r0.end THEN Outcome(t, r0.start, regs, result, r0, 0)
        ELSE IF copied = Panicked THEN Outcome([t EXCEPT !.ok = FALSE], cursor, regs, result, r, 0)
        ELSE Outcome(tbl_delete_range(t, r.start, r.end), r.start,
                     map_insert(regs, cmd.target_register, copied), result, r, 0)

\* Command::execute for Edit{Yank} that also moves the cursor to the range.
execute_yank_moves(cmd, t, cursor, regs) ==
    LET r == edit_range(cmd, cursor)
    IN  Outcome(t, r.end, map_insert(regs, cmd.target_register,
                                     copy_range(t.pieces, t.sources, r.start, r.end)),
                "None", r, 0)

\* Command::execute for Edit{Yank}
execute_yank(cmd, t, cursor, regs) ==
    LET r == edit_range(cmd, cursor)
        copied == copy_range(t.pieces, t.sources, r.start, r.end)
    IN  IF copied = Panicked THEN Outcome([t EXCEPT !.ok = FALSE], cursor, regs, "None", r, 0)
        ELSE Outcome(t, cursor, map_insert(regs, cmd.target_register, copied), "None", r, 0)

\* Command::execute for Edit{ReplaceChar(c)}: the mutator it takes goes out
\* of scope at the end of the arm.
execute_replace(cmd, t, cursor, regs) ==
    LET t1 == tbl_delete_range(t, cursor, cursor + 1)
        im == tbl_insert_mutator(t1, cursor)
        t2 == tbl_push_char(im.t, im.m, <<cmd.op[2]>>)
    IN  Outcome(t2, cursor, regs, "None", [start |-> cursor, end |-> cursor + 1],
                IF im.m.open THEN 1 ELSE 0)

\* Config::default: soft tabs, four columns wide.
softtab == TRUE
tabstop == 4

\* PieceTable::insert_raw_piece and insert_range on the buffer's table.
tbl_insert_raw_piece(t, index, new_piece) ==
    LET a == ActionNew(t.next_action_id)
        cs == insert_raw_changes(t.pieces, index, new_piece)
    IN  IF ~t.ok THEN t
        ELSE [t EXCEPT !.pieces = enact_changes(t.pieces, cs, Len(cs)).v,
                       !.next_action_id = a.next_action_id,
                       !.history = Append(@, [a.action EXCEPT !.changes = cs])]
tbl_insert_range(t, s, index) ==
    IF ~t.ok \/ Len(s) = 0 THEN t
    ELSE tbl_insert_raw_piece([t EXCEPT !.sources = Append(@, s)], index,
                              Piece(Len(t.sources), 0, Len(s)))

\* TableMutator::finish on the buffer's table.
tbl_finish(t, m) ==
    IF ~t.ok THEN t ELSE [t EXCEPT !.history = Append(@, finish_action(t.pieces, m))]

\* Buffer::sense_indent_level: the loop from index i on, space_counter spaces
\* into the next level.
RECURSIVE sense_indent_scan(_, _, _, _)
sense_indent_scan(t, i, space_counter, indent_level) ==
    LET ch == char_at(t.pieces, t.sources, i)
    IN  IF softtab /\ ch = Some(<<" ">>)
        THEN IF space_counter + 1 = 4
             THEN sense_indent_scan(t, i + 1, 0, indent_level + 1)
             ELSE sense_indent_scan(t, i + 1, space_counter + 1, indent_level)
        ELSE IF ch = Some(<<"\t">>) THEN sense_indent_scan(t, i + 1, space_counter, indent_level + 1)
        ELSE indent_level
sense_indent_level(t, at) == sense_indent_scan(t, current_start_of_line(t, at), 0, 0)

\* Buffer::indent: the table, and the number of characters put in.
RECURSIVE tbl_push_chars(_, _, _, _)
tbl_push_chars(t, m, c, n) ==
    IF n = 0 THEN t ELSE tbl_push_chars(tbl_push_char(t, m, c), m, c, n - 1)
RECURSIVE tbl_insert_tabs(_, _, _)
tbl_insert_tabs(t, at, n) ==
    IF n = 0 THEN t ELSE tbl_insert_tabs(tbl_insert_range(t, <<"\t">>, at), at, n - 1)
indent(t, at, count) ==
    LET im == tbl_insert_mutator(t, at)
    IN  IF count = 0 THEN [t |-> t, n |-> 0]
        ELSE IF softtab
        THEN [t |-> IF im.t.ok THEN tbl_finish(tbl_push_chars(im.t, im.m, <<" ">>, count * tabstop),
                                               im.m)
                    ELSE im.t,
              n |-> count * tabstop]
        ELSE [t |-> tbl_insert_tabs(t, at, count), n |-> count]

\* BTreeMap::remove on the registers.
map_remove(regs, k) == [x \in DOMAIN regs \ {k} |-> regs[x]]

\* The errors Command::execute returns.
EmptyRegister(name) == "EmptyRegister(" \o name \o ")"
NoPreviousCommand == "InvalidCommand(no previous command)"

\* Command::execute for Put that reads an absent register as the empty text.
execute_put_unchecked(cmd, t, cursor, regs) ==
    Outcome(t, cursor, IF cmd.clear_register THEN map_remove(regs, cmd.source_register) ELSE regs,
            "None", [start |-> cursor, end |-> cursor], 0)

\* Command::execute for Put
execute_put(cmd, t, cursor, regs) ==
    LET src == regs[cmd.source_register]
        insertion_point == IF Len(src) > 0 /\ src[Len(src)] = "\n"
                           THEN next_line_index(t, cursor)
                           ELSE cursor
    IN  IF cmd.source_register \notin DOMAIN regs
        THEN Outcome(t, cursor, regs, EmptyRegister(cmd.source_register), NoRange, 0)
        ELSE Outcome(tbl_insert_range(t, src, insertion_point),
                     insertion_point + saturating_sub(Len(src), 1),
                     IF cmd.clear_register THEN map_remove(regs, cmd.source_register) ELSE regs,
                     "None", [start |-> insertion_point, end |-> insertion_point + Len(src)], 0)

\* Command::execute for JoinLine: the loop, count rounds to go. With no text
\* ln - 1 is below zero, and the call panics at the subtraction or at the
\* assertion of delete_range.
RECURSIVE join_lines(_, _, _)
join_lines(t, cursor, count) ==
    LET ln == next_line_index(t, cursor)
    IN  IF count = 0 \/ ~t.ok THEN t
        ELSE IF ln = 0 THEN [t EXCEPT !.ok = FALSE]
        ELSE join_lines(tbl_delete_range(t, ln - 1, ln), cursor, count - 1)
execute_join(cmd, t, cursor, regs) ==
    Outcome(join_lines(t, cursor, cmd.count), cursor, regs, "None", NoRange, 0)

\* Command::execute for Edit{NewLineAndEnterMode(dir, mode)}
execute_new_line(cmd, t, cursor, regs) ==
    LET idx == IF cmd.op[2] = "Forward" THEN next_line_index(t, cursor)
               ELSE current_start_of_line(t, cursor)
        t1 == tbl_insert_range(t, <<"\n">>, idx)
        in == indent(t1, idx, sense_indent_level(t1, cursor))
    IN  Outcome(in.t, IF idx = len(in.t.pieces) - 1 THEN 1 ELSE idx + in.n, regs, cmd.op[3],
                [start |-> idx, end |-> idx + 1], 0)

\* Command::execute for Edit{Indent(Forward)}: the loop over the lines.
RECURSIVE indent_lines(_, _, _)
indent_lines(t, ln, end) ==
    IF ~t.ok \/ ln >= end THEN t
    ELSE indent_lines(indent(t, ln, 1).t, next_line_index(indent(t, ln, 1).t, ln), end)
execute_indent(cmd, t, cursor, regs) ==
    LET r == range(cmd.mo, cursor, cmd.op_count)
    IN  Outcome(indent_lines(t, current_start_of_line(t, r.start), r.end), cursor, regs,
                "None", r, 0)

\* Command::execute, the arms of `match self`
execute(cmd, t, cursor, regs) ==
    CASE cmd.cmd = "Move" ->
           Outcome(t, range(cmd.mo, cursor, 1).end, regs, "None", range(cmd.mo, cursor, 1), 0)
      [] cmd.cmd = "Undo" -> Outcome(tbl_undo_times(t, cmd.count), cursor, regs, "None", NoRange, 0)
      [] cmd.cmd = "Redo" -> Outcome(t, cursor, regs, "Err", NoRange, 0)
      [] cmd.cmd = "ChangeMode" -> Outcome(t, cursor, regs, cmd.mode[1], NoRange, 0)
      [] cmd.cmd = "Edit" /\ cmd.op \in {<<"Delete">>, <<"Change">>} ->
           execute_delete(cmd, t, cursor, regs)
      [] cmd.cmd = "Edit" /\ cmd.op = <<"Yank">> -> execute_yank(cmd, t, cursor, regs)
      [] cmd.cmd = "Edit" /\ cmd.op[1] = "ReplaceChar" -> execute_replace(cmd, t, cursor, regs)
      [] cmd.cmd = "Edit" /\ cmd.op[1] = "NewLineAndEnterMode" ->
           execute_new_line(cmd, t, cursor, regs)
      [] cmd.cmd = "Edit" /\ cmd.op[1] = "Indent" -> execute_indent(cmd, t, cursor, regs)
      [] cmd.cmd = "Put" -> execute_put(cmd, t, cursor, regs)
      [] cmd.cmd = "JoinLine" -> execute_join(cmd, t, cursor, regs)

\* Command::count_mut set to count
with_count(cmd, count) ==
    CASE cmd.cmd \in {"JoinLine", "Put"} -> [cmd EXCEPT !.count = count]
      [] cmd.cmd = "Edit" -> [cmd EXCEPT !.op_count = count]
      [] OTHER -> cmd

\* Command::execute for Repeat after ChangeMode(Insert): the loop that puts
\* the piece in, count rounds to go.
RECURSIVE replay(_, _, _, _)
replay(t, cursor, inserted_piece, count) ==
    IF count = 0 THEN [t |-> t, cursor_index |-> cursor]
    ELSE replay(tbl_insert_raw_piece(t, cursor, inserted_piece),
                cursor + inserted_piece.length, inserted_piece, count - 1)

\* Command::execute for Repeat, last_cmd being EditorState::last_command
execute_repeat(cmd, last_cmd, t, cursor, regs) ==
    LET prev == Unwrap(last_cmd)
        act == t.history[Len(t.history)]
        at == IF Len(act.changes) = 1 THEN 0 ELSE 1
        again == replay(t, cursor, act.changes[at + 1].new, cmd.count)
    IN  IF ~IsSome(last_cmd) THEN Outcome(t, cursor, regs, NoPreviousCommand, NoRange, 0)
        ELSE IF prev.cmd # "ChangeMode" THEN execute(with_count(prev, cmd.count), t, cursor, regs)
        ELSE IF Len(t.history) = 0 \/ Len(act.changes) <= at
        THEN Outcome([t EXCEPT !.ok = FALSE], cursor, regs, "None", NoRange, 0)
        ELSE IF act.changes[at + 1].kind # "Insert"
        THEN Outcome([t EXCEPT !.ok = FALSE], cursor, regs, "None", NoRange, 0)
        ELSE Outcome(again.t, again.cursor_index, regs, "None", NoRange, 0)

\* Command::execute(state), with state.last_command before the call
Command_execute(cmd, last_cmd, t, cursor, regs) ==
    IF cmd.cmd = "Repeat" THEN execute_repeat(cmd, last_cmd, t, cursor, regs)
    ELSE execute(cmd, t, cursor, regs)

\* state.last_command once Command::execute returned
last_command_after(cmd, last_cmd) ==
    CASE cmd.cmd \in {"Put", "JoinLine", "Edit"} -> Some(cmd)
      [] cmd.cmd = "ChangeMode" /\ cmd.mode = <<"Insert">> -> Some(cmd)
      [] cmd.cmd = "Repeat" /\ IsSome(last_cmd) /\ Unwrap(last_cmd).cmd # "ChangeMode" ->
           Some(with_count(Unwrap(last_cmd), cmd.count))
      [] OTHER -> last_cmd

\* What a call leaves behind for the properties: its name, its arguments,
\* the table before it, and what it returned.
Call(op, a, b, s, res) == [op |-> op, a |-> a, b |-> b, s |-> s, pre |-> Table, res |-> res]

\* The text before the last command that changed the buffer, for the
\* properties: fresh until another command runs or a character is typed.
\* They also keep the text typed in the last insert session.
NoBase == [fresh |-> FALSE, text |-> << >>]

\* NormalMode::new, Buffer::with_text, an empty register map and no command
\* recorded.
InitEditor ==
    /\ pending_buf = << >>
    /\ parsed = [s |-> << >>, res |-> InvalidCommand(<< >>)]
    /\ mode = "Normal"
    /\ cursor_index = 0
    /\ registers = << >>
    /\ last_command = None
    /\ handled = [event |-> "new", n |-> 0, base |-> NoBase, typed |-> << >>]
    /\ dropped = 0

\* Buffer::with_text: no query set. Server::new: no file open.
InitServer ==
    /\ open_files = << >>
    /\ next_file_id = 1
    /\ reply = [req |-> [kind |-> "none"], resp |-> [kind |-> "none"], pre |-> << >>]
\* Buffer::with_text: version 0, no conflict. AutosyncWorker::new: an empty map.
InitSyncState ==
    /\ version = 0
    /\ currently_in_conflict = FALSE
    /\ requests = << >>
    /\ replies = << >>
    /\ last_synced_action_ids = None
\* Server::init: no response, no waker, the first message id 1.
InitFutures ==
    /\ next_msg_id = 1
    /\ responses = {}
    /\ wakers = {}
    /\ responses_lock = None
    /\ tasks = << >>
    /\ callbacks = << >>
\* Scheduler::with_threads: the first pid 1, nothing spawned, each worker
\* with an empty queue.
InitScheduler ==
    /\ next_pid = 1
    /\ injector = << >>
    /\ work_qus = [w \in 1 .. NumThreads |-> << >>]
    /\ running = [w \in 1 .. NumThreads |-> None]
    /\ procs = << >>
    /\ main_rx = << >>
InitWorld ==
    /\ current_query = None
    /\ InitServer
    /\ InitSyncState
    /\ InitFutures
    /\ InitScheduler

InitBufferOn(texts) ==
    /\ \E t \in texts :
          /\ sources = <<t>>
          /\ pieces = <<Piece(0, 0, Len(t))>>
    /\ history = << >>
    /\ next_action_id = 1
    /\ mutator = NoMutator
    /\ panicked = FALSE
    /\ before = << >>
    /\ session = NoSession
    /\ replica = [sources |-> sources, pieces |-> pieces, history |-> << >>,
                  next_action_id |-> 1, panicked |-> FALSE]
    /\ last = [op |-> "with_text", a |-> 0, b |-> 0, s |-> << >>,
               pre |-> [sources |-> << >>, pieces |-> << >>, history |-> << >>,
                        next_action_id |-> 1],
               res |-> None]
    /\ InitEditor

InitOn(texts) == InitBufferOn(texts) /\ InitWorld

Init == InitOn(InitTexts)

\* The calls that take &self. A behaviour ends with such a call: it leaves
\* the table as it was, so what could follow it follows the state before it.
Queries == {"copy_range", "index_of", "last_index_of", "chars"}

Ready == ~panicked /\ ~mutator.open /\ last.op \notin Queries
Typing == ~panicked /\ mutator.open /\ last.op \notin Queries

\* PieceTable::insert_range(s, index); max bounds the action ids consumed.
insert_range_call(max) ==
    /\ \E s \in InsertTexts, index \in 0 .. len(pieces) :
          LET new_piece == Piece(Len(sources), 0, Len(s))
              action == [ActionNew(next_action_id).action EXCEPT
                            !.changes = insert_raw_changes(pieces, index, new_piece)]
          IN  /\ last' = Call("insert_range", index, 0, s, None)
              /\ IF Len(s) = 0
                 THEN UNCHANGED <<sources, pieces, history, next_action_id, before>>
                 ELSE /\ next_action_id <= max
                      /\ len(pieces) + Len(s) <= MaxLen
                      /\ sources' = Append(sources, s)
                      /\ next_action_id' = ActionNew(next_action_id).next_action_id
                      /\ pieces' = enact_changes(pieces, action.changes, Len(action.changes)).v
                      /\ history' = Append(history, action)
                      /\ before' = Append(before, Snapshot(Table, "insert_range"))
    /\ UNCHANGED <<mutator, panicked, session>>

\* insert_range on a table none of whose mutators is open.
InsertRange(max) == Ready /\ insert_range_call(max)

\* insert_range between insert_mutator and finish: the mutator does not borrow
\* the table, so the call compiles and runs.
InsertRangeOpen(max) == Typing /\ insert_range_call(max)

\* The actions a peer may send: the id 0, or an id one below, at, or one above
\* next_action_id, and changes of each kind; the last one names a piece index
\* that is out of range.
RemoteChanges ==
    {<< >>,
     <<Insert(0, Piece(0, 0, 0))>>,
     <<Insert(0, Piece(0, 0, 0)), Delete(1, pieces[1])>>,
     <<Modify(0, pieces[1], Piece(0, 0, 0))>>,
     <<Delete(Len(pieces), pieces[1])>>}
RemoteActions ==
    {[changes |-> cs, id |-> id] :
        cs \in RemoteChanges, id \in {0, next_action_id - 1, next_action_id, next_action_id + 1}}

\* PieceTable::apply_action(a)
ApplyAction(max) ==
    /\ Ready
    /\ next_action_id <= max
    /\ Len(pieces) > 0
    /\ \E a \in RemoteActions :
          LET r == apply_action(pieces, next_action_id, a)
          IN  /\ last' = Call("apply_action", a.id, 0, a.changes, None)
              /\ pieces' = r.pieces
              /\ next_action_id' = r.next_action_id
              /\ panicked' = ~r.ok
    /\ UNCHANGED <<sources, history, mutator, before, session>>

\* PieceTable::delete_range(start, end), end > start
DeleteRange(max) ==
    /\ Ready
    /\ next_action_id <= max
    /\ \E start \in 0 .. len(pieces), end \in 0 .. len(pieces) :
          /\ end > start
          /\ LET r == delete_range(pieces, start, end)
             IN  /\ last' = Call("delete_range", start, end, << >>, None)
                 /\ next_action_id' = ActionNew(next_action_id).next_action_id
                 /\ IF r.ok
                    THEN /\ pieces' = r.pieces
                         /\ history' = Append(history, [ActionNew(next_action_id).action EXCEPT
                                                           !.changes = r.changes])
                         /\ before' = Append(before, Snapshot(Table, "delete_range"))
                         /\ UNCHANGED panicked
                    ELSE /\ panicked' = TRUE
                         /\ UNCHANGED <<pieces, history, before>>
    /\ UNCHANGED <<sources, mutator, session>>

\* PieceTable::undo
Undo ==
    /\ Ready
    /\ last' = Call("undo", 0, 0, << >>,
                     IF Len(history) = 0 THEN None ELSE Some(before[Len(before)]))
    /\ IF Len(history) = 0
       THEN UNCHANGED <<pieces, history, before, panicked>>
       ELSE LET action == history[Len(history)]
                ps == reverse_changes(pieces, action.changes, Len(action.changes))
            IN  /\ history' = SubSeq(history, 1, Len(history) - 1)
                /\ before' = SubSeq(before, 1, Len(before) - 1)
                /\ IF ps.ok
                   THEN pieces' = ps.v /\ UNCHANGED panicked
                   ELSE panicked' = TRUE /\ UNCHANGED pieces
    /\ UNCHANGED <<sources, next_action_id, mutator, session>>

\* PieceTable::insert_mutator(index)
InsertMutator(max) ==
    /\ Ready
    /\ next_action_id <= max
    /\ \E index \in 0 .. len(pieces) :
          LET r == insert_mutator(pieces, sources, index)
          IN  /\ last' = Call("insert_mutator", index, 0, << >>, None)
              /\ next_action_id' = ActionNew(next_action_id).next_action_id
              /\ IF r.ok
                 THEN /\ pieces' = r.pieces
                      /\ sources' = r.sources
                      /\ mutator' = [open |-> TRUE, piece_ix |-> r.piece_ix,
                                     action |-> [ActionNew(next_action_id).action EXCEPT
                                                   !.changes = r.changes]]
                      /\ session' = [open |-> TRUE, pre |-> Table, at |-> index, typed |-> << >>]
                      /\ UNCHANGED panicked
                 ELSE /\ panicked' = TRUE
                      /\ UNCHANGED <<pieces, sources, mutator, session>>
    /\ UNCHANGED <<history, before>>

\* TableMutator::push_char(c)
PushChar ==
    /\ Typing
    /\ Len(session.typed) < MaxTyped
    /\ \E c \in CharSet :
          /\ last' = Call("push_char", 0, 0, c, None)
          /\ pieces' = push_char_pieces(pieces, mutator.piece_ix)
          /\ sources' = push_char_sources(pieces, sources, mutator.piece_ix, c)
          /\ session' = [session EXCEPT !.typed = @ \o c]
    /\ UNCHANGED <<history, next_action_id, mutator, panicked, before>>

\* TableMutator::pop_char, returning whether the piece was already empty
PopChar ==
    /\ Typing
    /\ last' = Call("pop_char", 0, 0, << >>, Some(pieces[mutator.piece_ix + 1].length = 0))
    /\ pieces' = pop_char_pieces(pieces, mutator.piece_ix)
    /\ sources' = pop_char_sources(pieces, sources, mutator.piece_ix)
    /\ session' = [session EXCEPT !.typed = StringPop(@)]
    /\ UNCHANGED <<history, next_action_id, mutator, panicked, before>>

\* TableMutator::finish
Finish ==
    /\ Typing
    /\ last' = Call("finish", session.at, 0, session.typed, Some(session.pre))
    /\ history' = Append(history, finish_action(pieces, mutator))
    /\ before' = Append(before, Snapshot(session.pre, "finish"))
    /\ mutator' = NoMutator
    /\ session' = NoSession
    /\ UNCHANGED <<sources, pieces, next_action_id, panicked>>

\* PieceTable::copy_range(start, end)
CopyRange ==
    /\ ~panicked /\ last.op \notin Queries
    /\ \E start \in 0 .. len(pieces), end \in 0 .. len(pieces) :
          /\ start <= end
          /\ last' = Call("copy_range", start, end, << >>, copy_range(pieces, sources, start, end))
    /\ UNCHANGED <<table, mutator, panicked, before, session>>

\* PieceTable::index_of(sc, start)
IndexOf ==
    /\ ~panicked /\ last.op \notin Queries
    /\ \E sc \in SearchChars, start \in 0 .. len(pieces) + 1 :
          last' = Call("index_of", start, 0, sc, index_of(pieces, sources, sc, start))
    /\ UNCHANGED <<table, mutator, panicked, before, session>>

\* PieceTable::last_index_of(c, start)
LastIndexOf ==
    /\ ~panicked /\ last.op \notin Queries
    /\ \E c \in SearchChars, start \in 0 .. len(pieces) + 1 :
          last' = Call("last_index_of", start, 0, c, last_index_of(pieces, sources, c, start))
    /\ UNCHANGED <<table, mutator, panicked, before, session>>

\* The replica asks the table for get_changes_from(its next_action_id) and
\* applies what it gets, in order, with apply_action.
ReplicaSync ==
    /\ Ready
    /\ ~replica.panicked
    /\ LET sent == get_changes_from(history, replica.next_action_id)
           r == apply_actions(replica.pieces, replica.next_action_id, sent, Len(sent))
       IN  /\ last' = Call("sync", replica.next_action_id, 0, << >>, sent)
           /\ replica' = [replica EXCEPT !.pieces = r.pieces,
                                         !.next_action_id = r.next_action_id,
                                         !.panicked = ~r.ok]
    /\ UNCHANGED <<table, mutator, panicked, before, session>>

\* PieceTable::chars(index), read to its end with next and, from a second
\* iterator, with next_back.
Chars ==
    /\ ~panicked /\ last.op \notin Queries
    /\ \E index \in 0 .. len(pieces) - 1 :
          LET it == Unwrap(chars(pieces, index, 0, 0))
          IN  last' = Call("chars", index, 0, << >>,
                           [forward |-> chars_next(pieces, sources, it.current_piece,
                                                   it.current_index),
                            backward |-> chars_next_back(pieces, sources, it.current_piece,
                                                         it.current_index)])
    /\ UNCHANGED <<table, mutator, panicked, before, session>>

\* The editing calls alone, for the properties of undo.
NextEdit ==
    \/ InsertRange(MaxEdits) /\ UNCHANGED outside
    \/ DeleteRange(MaxEdits) /\ UNCHANGED outside
    \/ Undo /\ UNCHANGED outside

SpecEdit == Init /\ [][NextEdit]_vars

\* The editing calls and the queries.
NextQuery ==
    \/ InsertRange(MaxQueryEdits) /\ UNCHANGED outside
    \/ DeleteRange(MaxQueryEdits) /\ UNCHANGED outside
    \/ Undo /\ UNCHANGED outside
    \/ CopyRange /\ UNCHANGED outside
    \/ IndexOf /\ UNCHANGED outside
    \/ LastIndexOf /\ UNCHANGED outside
    \/ Chars /\ UNCHANGED outside

SpecQuery == Init /\ [][NextQuery]_vars

Next ==
    \/ InsertRange(MaxActions) /\ UNCHANGED outside
    \/ DeleteRange(MaxActions) /\ UNCHANGED outside
    \/ Undo /\ UNCHANGED outside
    \/ InsertMutator(MaxActions) /\ UNCHANGED outside
    \/ PushChar /\ UNCHANGED outside
    \/ PopChar /\ UNCHANGED outside
    \/ Finish /\ UNCHANGED outside
    \/ CopyRange /\ UNCHANGED outside
    \/ IndexOf /\ UNCHANGED outside
    \/ LastIndexOf /\ UNCHANGED outside

Spec == Init /\ [][Next]_vars

\* The calls that write the undo log or move next_action_id, insert_range
\* between insert_mutator and finish among them.
NextLog ==
    \/ InsertRange(MaxLogActions) /\ UNCHANGED outside
    \/ DeleteRange(MaxLogActions) /\ UNCHANGED outside
    \/ Undo /\ UNCHANGED outside
    \/ InsertMutator(MaxLogActions) /\ UNCHANGED outside
    \/ InsertRangeOpen(MaxLogActions) /\ UNCHANGED outside
    \/ Finish /\ UNCHANGED outside
    \/ ApplyAction(MaxLogActions) /\ UNCHANGED outside

SpecLog == Init /\ [][NextLog]_vars

\* A table edited by insert_range and delete_range, and a replica that follows
\* it.
NextReplica ==
    \/ InsertRange(MaxReplicaEdits) /\ UNCHANGED outside
    \/ DeleteRange(MaxReplicaEdits) /\ UNCHANGED outside
    \/ ReplicaSync /\ UNCHANGED <<client, world>>

SpecReplica == Init /\ [][NextReplica]_vars

\* NormalMode::event on the pending keys s once Command::parse returned: they
\* are kept for IncompleteCommand alone.
pending_after_keeps_unknown(s, kind) ==
    IF kind \in {"IncompleteCommand", "UnknownCommand"} THEN s ELSE << >>
pending_after(s, kind) == IF kind = "IncompleteCommand" THEN s ELSE << >>

\* The keys typed to the parser.
ParseKeys == {"\"", "2", "3", "d", "y", "x", "w", "f", "g", "e", "i", "r", " ", "z", "Z"}

\* Command::parse on the pending keys and one more key, as NormalMode::event
\* calls it: the keys are kept while the outcome is IncompleteCommand.
Parse ==
    /\ Len(pending_buf) < MaxPending
    /\ \E c \in ParseKeys :
          LET s == pending_buf \o <<c>>
              res == Command_parse(s)
          IN  /\ parsed' = [s |-> s, res |-> res]
              /\ pending_buf' = pending_after(s, res.kind)
    /\ UNCHANGED <<table, mutator, panicked, last, before, session, replica,
                   mode, cursor_index, registers, last_command, handled, dropped, world>>

NextParse == Parse

\* The parser reads no buffer: the editor is opened on the empty text.
InitParse == Init /\ sources = << << >> >>

SpecParse == InitParse /\ [][NextParse]_vars

\* ------------------------------------------------------------------ editor
\* The keys typed in normal mode, the registers named, the characters typed
\* in insert mode and the texts the buffer is opened with.
ClientKeys == {"x", "c", "y", "l", "r", "i", "u", "U", "\"", "2", "Z"}
RegisterNames == {"\"", "x"}
InsertKeys == {"b"}
ClientTexts == {<<"a", " ">>}

InitClient == InitOn(ClientTexts)

\* What an event leaves behind for the properties: the event, its key, the
\* range and result of the command it executed, and the editor before it.
Handled(event, c, r, result) ==
    [event |-> event, n |-> handled.n + 1, c |-> c, r |-> r, result |-> result,
     pre |-> [sources |-> sources, pieces |-> pieces, history |-> history,
              next_action_id |-> next_action_id, cursor_index |-> cursor_index,
              registers |-> registers, pending_buf |-> pending_buf,
              last_command |-> last_command, base |-> handled.base,
              typed |-> handled.typed],
     base |-> handled.base, typed |-> handled.typed]

\* The commands executed here: u, U, i, l, r, x, and c and y over l, on a
\* range that lies within the text.
RECURSIVE InScope(_)
InScope(cmd) ==
    \/ cmd.cmd \in {"Undo", "Redo"}
    \/ cmd.cmd = "ChangeMode" /\ cmd.mode = <<"Insert">> /\ next_action_id <= MaxClientActions
    \/ /\ cmd.cmd = "Move"
       /\ cmd.mo.mo = <<"Char", "Forward">>
       /\ range(cmd.mo, cursor_index, 1).end <= len(pieces)
    \/ /\ cmd.cmd = "Edit"
       /\ cmd.op[1] = "ReplaceChar"
       /\ cursor_index < len(pieces)
       /\ next_action_id <= MaxClientActions
    \/ /\ cmd.cmd = "Edit"
       /\ cmd.op \in {<<"Delete">>, <<"Change">>, <<"Yank">>}
       /\ cmd.mo.mo = <<"Char", "Forward">>
       /\ cmd.target_register \in RegisterNames
       /\ edit_range(cmd, cursor_index).end <= len(pieces)
       /\ cmd.op = <<"Yank">> \/ next_action_id <= MaxClientActions
    \/ /\ cmd.cmd \in {"Put", "JoinLine", "Repeat"}
       /\ next_action_id + cmd.count <= MaxClientActions + 1
       /\ cmd.cmd = "Repeat" /\ IsSome(last_command) => InScope(with_count(Unwrap(last_command), cmd.count))
    \/ /\ cmd.cmd = "Edit"
       /\ cmd.op[1] = "NewLineAndEnterMode" \/ cmd.op = <<"Indent", "Forward">>
       /\ cmd.op[1] = "Indent" =>
             cmd.mo.mo = <<"Char", "Forward">> /\ edit_range(cmd, cursor_index).end <= len(pieces)
       /\ Len(pieces) > 0
       /\ next_action_id < MaxClientActions

\* The commands that change the buffer's text: Edit with Delete, Change,
\* ReplaceChar, NewLineAndEnterMode or Indent, Put, and JoinLine of one line.
Changes(cmd) ==
    \/ cmd.cmd = "Put"
    \/ cmd.cmd = "JoinLine" /\ cmd.count = 1
    \/ cmd.cmd = "Edit" /\ cmd.op[1] \in {"Delete", "Change", "ReplaceChar",
                                          "NewLineAndEnterMode", "Indent"}

\* NormalMode::event(ReceivedCharacter(c)) once Command::parse returned the
\* command cmd for the pending keys s: execute, and insert_mutator when the
\* command asks for insert mode.
NormalExecute(c, s, cmd) ==
    \E out \in {Command_execute(cmd, last_command, Buf, cursor_index, registers)} :
    \E enter \in {tbl_insert_mutator(out.t, out.cursor_index)} :
    \E final \in {IF out.result = "Insert" THEN enter.t ELSE out.t} :
       /\ handled' = [Handled("char", c, out.r, out.result) EXCEPT
                          !.base = IF Changes(cmd) /\ out.result \in {"None", "Insert"}
                                   THEN [fresh |-> TRUE, text |-> text(pieces, sources)]
                                   ELSE NoBase,
                          !.typed = IF out.result = "Insert" THEN << >> ELSE @]
       /\ last_command' = last_command_after(cmd, last_command)
       /\ sources' = final.sources
       /\ pieces' = final.pieces
       /\ history' = final.history
       /\ next_action_id' = final.next_action_id
       /\ panicked' = ~final.ok
       /\ cursor_index' = out.cursor_index
       /\ registers' = out.registers
       /\ dropped' = dropped + out.dropped
       /\ pending_buf' = IF out.t.ok THEN pending_after(s, "Ok") ELSE s
       /\ IF final.ok /\ out.result = "Insert"
          THEN mode' = "Insert" /\ mutator' = enter.m
          ELSE UNCHANGED <<mode, mutator>>

\* NormalMode::event(ReceivedCharacter(c)), c one of keys
NormalKeyOf(keys) ==
    /\ handled.n < MaxEvents
    /\ mode = "Normal"
    /\ ~panicked
    /\ Len(pending_buf) < MaxClientPending
    /\ \E c \in keys :
       \E res \in {Command_parse(pending_buf \o <<c>>)} :
          /\ parsed' = [s |-> pending_buf \o <<c>>, res |-> res]
          /\ IF res.kind # "Ok"
             THEN /\ pending_buf' = pending_after(pending_buf \o <<c>>, res.kind)
                  /\ handled' = Handled("char", c, NoRange, res.kind)
                  /\ UNCHANGED <<table, mutator, panicked, mode, cursor_index, registers,
                                 last_command, dropped, world>>
             ELSE /\ InScope(res.v)
                  /\ NormalExecute(c, pending_buf \o <<c>>, res.v)
    /\ UNCHANGED <<last, before, session, replica, world>>

NormalKey == NormalKeyOf(ClientKeys)

\* NormalMode::event(Escape)
NormalEscape ==
    /\ handled.n < MaxEvents
    /\ mode = "Normal"
    /\ ~panicked
    /\ pending_buf' = << >>
    /\ handled' = Handled("escape", "", NoRange, "None")
    /\ UNCHANGED <<table, mutator, panicked, last, before, session, replica,
                   parsed, mode, cursor_index, registers, last_command, dropped, world>>

\* InsertMode::event(ReceivedCharacter(c))
InsertKey ==
    /\ handled.n < MaxEvents
    /\ mode = "Insert"
    /\ ~panicked
    /\ len(pieces) < MaxLen
    /\ \E c \in InsertKeys :
          /\ pieces' = push_char_pieces(pieces, mutator.piece_ix)
          /\ sources' = push_char_sources(pieces, sources, mutator.piece_ix, <<c>>)
          /\ cursor_index' = cursor_index + 1
          /\ handled' = [Handled("insert_char", c, NoRange, "None") EXCEPT
                             !.base = NoBase, !.typed = Append(@, c)]
    /\ UNCHANGED <<history, next_action_id, mutator, panicked, last, before, session, replica,
                   pending_buf, parsed, mode, registers, last_command, dropped, world>>

\* InsertMode::event(Back)
InsertBack ==
    /\ handled.n < MaxEvents
    /\ mode = "Insert"
    /\ ~panicked
    /\ pieces' = pop_char_pieces(pieces, mutator.piece_ix)
    /\ sources' = pop_char_sources(pieces, sources, mutator.piece_ix)
    /\ IF pieces[mutator.piece_ix + 1].length = 0
       THEN UNCHANGED <<cursor_index, panicked>>
       ELSE IF cursor_index = 0
       THEN panicked' = TRUE /\ UNCHANGED cursor_index
       ELSE cursor_index' = cursor_index - 1 /\ UNCHANGED panicked
    /\ handled' = [Handled("insert_back", "", NoRange, "None") EXCEPT
                       !.base = NoBase,
                       !.typed = IF pieces[mutator.piece_ix + 1].length = 0 THEN @
                                 ELSE SubSeq(@, 1, Len(@) - 1)]
    /\ UNCHANGED <<history, next_action_id, mutator, last, before, session, replica,
                   pending_buf, parsed, mode, registers, last_command, dropped, world>>

\* InsertMode::event(Escape)
InsertEscape ==
    /\ handled.n < MaxEvents
    /\ mode = "Insert"
    /\ ~panicked
    /\ history' = Append(history, finish_action(pieces, mutator))
    /\ mutator' = NoMutator
    /\ mode' = "Normal"
    /\ pending_buf' = << >>
    /\ handled' = Handled("insert_escape", "", NoRange, "None")
    /\ UNCHANGED <<sources, pieces, next_action_id, panicked, last, before, session, replica,
                   parsed, cursor_index, registers, last_command, dropped, world>>

NextClient ==
    \/ NormalKey
    \/ NormalEscape
    \/ InsertKey
    \/ InsertBack
    \/ InsertEscape

SpecClient == InitClient /\ [][NextClient]_vars

\* ------------------------------------------------------------------ commands
\* The editor on texts of more than one line, with the keys of Put, Repeat,
\* JoinLine, a new line below, and Indent.
CommandKeys == {"x", "2", "l", "p", "P", ".", "J", "o", ">", "r", "i", "u"}
CommandTexts == {<<"a", "\n", "b">>, <<"\t", "a", "\n">>}

InitCommands == InitOn(CommandTexts)

CommandKey == NormalKeyOf(CommandKeys)

NextCommands ==
    \/ CommandKey
    \/ NormalEscape
    \/ InsertKey
    \/ InsertBack
    \/ InsertEscape

SpecCommands == InitCommands /\ [][NextCommands]_vars

\* ------------------------------------------------------------------ motion calls
\* The buffers of the tests of Motion::range, and every text of up to
\* MaxMotionLen characters over a letter, a punctuation mark, a space and a
\* newline.
WordText == <<"w", "o", "r", "d", "\n", "w", "0", "r", "d", " ", "w", "#", "#", "d", " ",
              "+", "+", "+", "+", " ", "w", "o", "r", "d", "\n">>
BlockText == <<"<", "(", "b", "l", "(", "o", ")", "c", "k", ")", " ", "{", "\n",
               "b", "l", "o", "c", "k", "\n", "}", ">">>
LineText == <<"a", "b", "c", "\n", "d", "e", "f", "\n", "g", "h", "i", "\n">>
MotionLetters == {"a", "+", " ", "\n"}
MotionTexts ==
    {WordText, BlockText, LineText}
        \cup UNION {[1 .. n -> MotionLetters] : n \in 1 .. MaxMotionLen}

\* The motions asked for, each with count 1.
MotionTypes ==
    {<<"Word", "Forward">>, <<"Word", "Backward">>,
     <<"BigWord", "Forward">>, <<"BigWord", "Backward">>,
     <<"EndOfWord", "Forward">>, <<"EndOfBigWord", "Forward">>,
     <<"EndOfWord", "Backward">>, <<"EndOfBigWord", "Backward">>,
     <<"Line", "Forward">>, <<"Line", "Backward">>,
     <<"An", "Block", "(">>, <<"Inner", "Block", "(">>}
        \cup {<<"NextChar", c, place, direction>> :
                 c \in {"+"}, place \in {"place_on", "place_before"},
                 direction \in {"Forward", "Backward"}}

InitMotion == InitOn(MotionTexts)

\* b.cursor_index = i, as the tests place the cursor in a new buffer: on a
\* character.
SetCursor ==
    /\ last.op = "with_text"
    /\ \E i \in 1 .. len(pieces) - 1 : cursor_index' = i
    /\ last' = Call("cursor_index", 0, 0, << >>, None)
    /\ UNCHANGED <<table, mutator, panicked, before, session, replica,
                   pending_buf, parsed, mode, registers, last_command, handled, dropped, world>>

\* mo.range(&b) and b.cursor_index = r.end, as run_repeated_test has them: the
\* call panics, or the cursor is the end of the range. Where a subtraction
\* went below zero the build decides: with overflow checks (checks = 1) the
\* call panics, without them the index wraps.
Range ==
    /\ ~panicked
    /\ cursor_index \in 0 .. len(pieces) - 1
    /\ \E mo \in MotionTypes :
       \E r \in {Motion_range(Buf, cursor_index, Motion(1, mo))} :
       \E checks \in IF r.wrapped THEN {0, 1} ELSE {1} :
          /\ last' = Call("range", cursor_index, checks, mo, r)
          /\ IF ~r.ok \/ (checks = 1 /\ r.wrapped)
             THEN panicked' = TRUE /\ UNCHANGED cursor_index
             ELSE cursor_index' = r.end /\ UNCHANGED panicked
    /\ UNCHANGED <<table, mutator, before, session, replica,
                   pending_buf, parsed, mode, registers, last_command, handled, dropped, world>>

NextMotion ==
    \/ SetCursor
    \/ Range

SpecMotion == InitMotion /\ [][NextMotion]_vars

\* ------------------------------------------------------------------ search
\* The loop of Buffer::next_query_index over what chars(from) yields, all,
\* from its k-th element on. Once the characters run out with wrap set the
\* iterator starts at from again and chrs_ix at 0, which the end of the loop
\* body makes 1. An empty query is indexed out of bounds.
RECURSIVE query_scan(_, _, _, _, _, _, _)
query_scan(all, k, qury, qury_ix, chrs_ix, qury_match, wrap) ==
    IF k > Len(all)
    THEN IF wrap THEN query_scan(all, 1, qury, qury_ix, 1, qury_match, FALSE)
         ELSE Ok(None)
    ELSE IF qury_ix >= Len(qury) THEN Err
    ELSE IF qury[qury_ix + 1] = all[k]
    THEN LET found == IF qury_ix = 0 THEN Some(chrs_ix) ELSE qury_match
         IN  IF qury_ix + 1 = Len(qury) THEN Ok(found)
             ELSE query_scan(all, k + 1, qury, qury_ix + 1, chrs_ix + 1, found, wrap)
    ELSE query_scan(all, k + 1, qury, 0, chrs_ix + 1, None, wrap)

\* Buffer::next_query_index: the direction is not read.
next_query_index(t, query, from, direction, wrap) ==
    LET it == chars_from(t, from)
    IN  IF ~IsSome(query) THEN Ok(None)
        ELSE IF ~IsSome(it) THEN Err
        ELSE query_scan(Unwrap(it), 1, str_chars(Unwrap(query)), 0, from, None, wrap)

\* The texts searched: every text of up to MaxSearchLen characters over two
\* letters; the queries set.
SearchTexts == UNION {[1 .. n -> {"a", "b"}] : n \in 0 .. MaxSearchLen}
SearchQueries == {<<"a">>, <<"a", "b">>, <<"b", "a">>}

InitSearch == InitOn(SearchTexts)

\* Buffer::set_query
SetQuery ==
    /\ \E q \in SearchQueries : current_query' = Some(q)
    /\ last' = Call("set_query", 0, 0, << >>, None)
    /\ UNCHANGED <<table, mutator, panicked, before, session, replica, client, server, sync,
                   futures, sched>>

\* buf.next_query_index(from, direction, false), from an index of the text
\* or its end.
NextQueryIndex ==
    /\ ~panicked
    /\ \E from \in 0 .. len(pieces) :
       \E direction \in {"Forward", "Backward"} :
       \E r \in {next_query_index(Buf, current_query, from, direction, FALSE)} :
          /\ last' = Call("next_query_index", from, 0, direction, r.v)
          /\ panicked' = ~r.ok
    /\ UNCHANGED <<table, mutator, before, session, replica, client, world>>

NextSearch ==
    \/ SetQuery
    \/ NextQueryIndex

SpecSearch == InitSearch /\ [][NextSearch]_vars

\* ------------------------------------------------------------------ parser calls
\* Command::parse on every string of up to MaxPrefixLen keys, each string
\* after its prefixes: the call reads no state and leaves none.
PrefixKeys == {"\"", "2", "d", "i", "w", "g", "e", "f", "z", "r", "Z"}

ParseString ==
    /\ Len(parsed.s) < MaxPrefixLen
    /\ \E c \in PrefixKeys :
          parsed' = [s |-> parsed.s \o <<c>>, res |-> Command_parse(parsed.s \o <<c>>)]
    /\ UNCHANGED <<table, mutator, panicked, last, before, session, replica, pending_buf,
                   mode, cursor_index, registers, last_command, handled, dropped, world>>

NextPrefix == ParseString

SpecPrefix == InitParse /\ [][NextPrefix]_vars

\* ------------------------------------------------------------------ counted motions
\* The motions that take a count, asked for with counts up to MaxCount.
CountedTypes ==
    {<<kind, direction>> :
        kind \in {"Char", "Word", "BigWord", "EndOfWord", "EndOfBigWord"},
        direction \in {"Forward", "Backward"}}

\* Motion { count, mo }.range(&b) and b.cursor_index = r.end.
RangeCounted ==
    /\ ~panicked
    /\ cursor_index \in 0 .. len(pieces) - 1
    /\ \E mo \in CountedTypes :
       \E count \in 1 .. MaxCount :
       \E r \in {Motion_range(Buf, cursor_index, Motion(count, mo))} :
       \E checks \in IF r.wrapped THEN {0, 1} ELSE {1} :
          /\ last' = Call("range_counted", cursor_index, checks, Motion(count, mo), r)
          /\ IF ~r.ok \/ (checks = 1 /\ r.wrapped)
             THEN panicked' = TRUE /\ UNCHANGED cursor_index
             ELSE cursor_index' = r.end /\ UNCHANGED panicked
    /\ UNCHANGED <<table, mutator, before, session, replica,
                   pending_buf, parsed, mode, registers, last_command, handled, dropped, world>>

NextCounted ==
    \/ SetCursor
    \/ RangeCounted

SpecCounted == InitMotion /\ [][NextCounted]_vars

\* ------------------------------------------------------------------ server
\* The responses of pk-server.
Ack == [kind |-> "Ack"]
VersionConflict(id, client_version_recieved, server_version, server_text) ==
    [kind |-> "VersionConflict", id |-> id,
     client_version_recieved |-> client_version_recieved,
     server_version |-> server_version, server_text |-> server_text]
FileInfo(id, contents, file_version) ==
    [kind |-> "FileInfo", id |-> id, contents |-> contents, version |-> file_version]
ServerError(message) == [kind |-> "Error", message |-> message]

\* File::from_path: what the disk holds at a path, version 0.
DiskText == <<"d">>
File(path, contents, current_version) ==
    [path |-> path, contents |-> contents, current_version |-> current_version]

\* The test of Request::SyncFile for a request that brings nothing new, and
\* one that takes a request carrying the server's own version.
sync_stale_strict(file, sent_version) == file.current_version > sent_version
sync_stale(file, sent_version) == file.current_version >= sent_version

\* Server::process_request for Request::OpenFile, Request::SyncFile and
\* Request::CloseFile, the Err of the call made a Response::Error as
\* Server::callback makes it: the files and the next id after the call, and
\* the response.
process_request(files, next_id, msg) ==
    LET same(resp) == [open_files |-> files, next_file_id |-> next_id, resp |-> resp]
        known == {id \in DOMAIN files : files[id].path = msg.path}
        found == CHOOSE id \in known : TRUE
        file == files[msg.id]
    IN  CASE msg.kind = "OpenFile" ->
               IF known # {}
               THEN same(FileInfo(found, files[found].contents, files[found].current_version))
               ELSE [open_files |-> files @@ (next_id :> File(msg.path, DiskText, 0)),
                     next_file_id |-> next_id + 1,
                     resp |-> FileInfo(next_id, DiskText, 0)]
          [] msg.kind = "SyncFile" ->
               IF msg.id \notin DOMAIN files THEN same(ServerError("BadFileId"))
               ELSE IF sync_stale(file, msg.version)
               THEN same(VersionConflict(msg.id, msg.version, file.current_version,
                                         file.contents))
               ELSE [open_files |-> [files EXCEPT ![msg.id].current_version = msg.version,
                                                  ![msg.id].contents = msg.new_text],
                     next_file_id |-> next_id, resp |-> Ack]
          [] msg.kind = "CloseFile" ->
               IF msg.id \notin DOMAIN files THEN same(ServerError("BadFileId"))
               ELSE [open_files |-> [id \in DOMAIN files \ {msg.id} |-> files[id]],
                     next_file_id |-> next_id, resp |-> Ack]
          [] OTHER -> same(ServerError("UnknownMessage"))

\* The requests the clients send: any of them, in any order.
ServerPaths == {"p", "q"}
ServerTexts == {<<"a">>, <<"b">>}
FileIds == 1 .. MaxFiles
OpenRequests == {[kind |-> "OpenFile", path |-> path] : path \in ServerPaths}
SyncRequests ==
    {[kind |-> "SyncFile", id |-> id, new_text |-> new_text, version |-> sent_version] :
        id \in FileIds, new_text \in ServerTexts, sent_version \in 0 .. MaxVersion}
CloseRequests == {[kind |-> "CloseFile", id |-> id] : id \in FileIds}

\* Server::callback for AioResult::Recv(Ok(raw_msg)), with the server's lock
\* held over process_request.
Serve(msg) ==
    LET out == process_request(open_files, next_file_id, msg)
    IN  /\ open_files' = out.open_files
        /\ next_file_id' = out.next_file_id
        /\ reply' = [req |-> msg, resp |-> out.resp, pre |-> open_files]
        /\ UNCHANGED <<table, mutator, panicked, last, before, session, replica, client,
                       current_query, sync, futures, sched>>
OpenFile == \E msg \in OpenRequests : next_file_id <= MaxFiles /\ Serve(msg)
SyncFile == \E msg \in SyncRequests : Serve(msg)
CloseFile == \E msg \in CloseRequests : Serve(msg)

NextServer ==
    \/ OpenFile
    \/ SyncFile
    \/ CloseFile

SpecServer == InitOn({<< >>}) /\ [][NextServer]_vars

\* ------------------------------------------------------------------ sync
\* PieceTable::most_recent_action_id
most_recent_action_id(t) ==
    IF Len(t.history) = 0 THEN 0 ELSE t.history[Len(t.history)].id

\* The file the buffer was opened from, and the buffer Buffer::from_server
\* makes of the server's FileInfo: the file's contents at its version.
SyncedFile == 1
SyncTexts == {<<"a">>}
InitSync ==
    /\ InitBufferOn(SyncTexts)
    /\ current_query = None
    /\ open_files = (SyncedFile :> File("p", text(pieces, sources), 0))
    /\ next_file_id = SyncedFile + 1
    /\ reply = [req |-> [kind |-> "none"], resp |-> [kind |-> "none"], pre |-> << >>]
    /\ InitSyncState
    /\ InitFutures
    /\ InitScheduler

\* ClientState::sync_buffer up to the request it sends: nothing for a buffer
\* in conflict, else SyncFile with the buffer's text and version + 1.
sync_buffer(in_conflict, t, v, sent) ==
    IF in_conflict THEN sent
    ELSE Append(sent, [kind |-> "SyncFile", id |-> SyncedFile,
                       new_text |-> text(t.pieces, t.sources), version |-> v + 1])

\* An edit command and Command::Undo on the buffer, as far as the sync reads
\* them: the text and the history.
BufferEdit ==
    /\ next_action_id <= MaxSyncEdits
    /\ \E out \in {tbl_insert_range(Buf, <<"x">>, 0)} :
          /\ sources' = out.sources
          /\ pieces' = out.pieces
          /\ history' = out.history
          /\ next_action_id' = out.next_action_id
    /\ last' = Call("edit", 0, 0, << >>, None)
    /\ UNCHANGED <<mutator, panicked, before, session, replica, client, current_query,
                   server, sync, futures, sched>>
BufferUndo ==
    /\ Len(history) > 0
    /\ \E out \in {tbl_undo(Buf)} :
          /\ pieces' = out.pieces
          /\ history' = out.history
    /\ last' = Call("undo", 0, 0, << >>, None)
    /\ UNCHANGED <<sources, next_action_id, mutator, panicked, before, session, replica,
                   client, current_query, server, sync, sched, futures, sched>>

\* SyncFileCommand::process: sync_buffer on the current buffer.
SyncCommand ==
    /\ version < MaxSyncVersion
    /\ Len(requests) + Len(replies) < MaxInFlight
    /\ requests' = sync_buffer(currently_in_conflict, Buf, version, requests)
    /\ last' = Call("sync", 0, 0, << >>, None)
    /\ UNCHANGED <<table, mutator, panicked, before, session, replica, client,
                   current_query, server, version, currently_in_conflict, replies,
                   last_synced_action_ids, futures, sched>>

\* One round of AutosyncWorker::run: the buffer's most recent action id
\* replaces the one kept, and the buffer is synced when one was kept and it
\* is below the new one.
AutosyncTick ==
    LET now == most_recent_action_id(Buf)
        need_sync == IsSome(last_synced_action_ids) /\ Unwrap(last_synced_action_ids) < now
    IN  /\ last_synced_action_ids' = Some(now)
        /\ requests' = IF need_sync
                       THEN sync_buffer(currently_in_conflict, Buf, version, requests)
                       ELSE requests
        /\ last' = Call("autosync", 0, 0, << >>, None)
        /\ UNCHANGED <<table, mutator, panicked, before, session, replica, client,
                       current_query, server, version, currently_in_conflict, replies,
                       futures, sched>>

\* Server::callback of pk-server on the oldest request; the response travels
\* with the version its request carried, which the closure of sync_buffer holds.
ServerProcess ==
    /\ Len(requests) > 0
    /\ LET msg == Head(requests)
           out == process_request(open_files, next_file_id, msg)
       IN  /\ open_files' = out.open_files
           /\ next_file_id' = out.next_file_id
           /\ reply' = [req |-> msg, resp |-> out.resp, pre |-> open_files]
           /\ requests' = Tail(requests)
           /\ replies' = Append(replies, [resp |-> out.resp, version |-> msg.version])
    /\ UNCHANGED <<table, mutator, panicked, last, before, session, replica, client,
                   current_query, version, currently_in_conflict, last_synced_action_ids,
                   futures, sched>>

\* The closure of sync_buffer on a response, the responses in any order: Ack
\* gives the buffer the version sent, VersionConflict sets its conflict flag.
ClientReceive ==
    /\ \E k \in 1 .. Len(replies) :
          /\ replies' = SubSeq(replies, 1, k - 1) \o SubSeq(replies, k + 1, Len(replies))
          /\ IF replies[k].resp.kind = "Ack"
             THEN /\ version' = replies[k].version
                  /\ UNCHANGED currently_in_conflict
             ELSE /\ currently_in_conflict' =
                        (currently_in_conflict \/ replies[k].resp.kind = "VersionConflict")
                  /\ UNCHANGED version
          /\ last' = Call("response", 0, 0, <<replies[k].resp.kind>>, None)
    /\ UNCHANGED <<table, mutator, panicked, before, session, replica, client,
                   current_query, server, requests, last_synced_action_ids, futures, sched>>

NextSync ==
    \/ BufferEdit
    \/ BufferUndo
    \/ SyncCommand
    \/ AutosyncTick
    \/ ServerProcess
    \/ ClientReceive

SpecSync == InitSync /\ [][NextSync]_vars

\* The worker's rounds, the server and the closures keep running; nothing
\* obliges the user to edit or to sync by hand.
SpecAutosync ==
    /\ SpecSync
    /\ WF_vars(AutosyncTick)
    /\ WF_vars(ServerProcess)
    /\ WF_vars(ClientReceive)

\* ------------------------------------------------------------------ responses
\* The task the thread pool runs for a FutureResponse: where its poll is, and
\* whether the task has been woken and waits to be polled.
Task(pc, notified) == [pc |-> pc, notified |-> notified]
SetTask(i, pc, notified) == [tasks EXCEPT ![i] = Task(pc, notified)]
Holder(kind, i) == Some(<<kind, i>>)
MsgIds == 1 .. MaxRequests

\* Server::request: the request goes out with the next message id and its
\* future is given to the thread pool, which polls a new task once.
ServerRequest ==
    /\ next_msg_id <= MaxRequests
    /\ tasks' = Append(tasks, Task("idle", TRUE))
    /\ callbacks' = Append(callbacks, "sent")
    /\ next_msg_id' = next_msg_id + 1
    /\ UNCHANGED <<table, mutator, panicked, last, before, session, replica, client,
                   current_query, server, sync, sched, responses, wakers, responses_lock>>

\* The pool takes a woken task and calls FutureResponse::poll.
PollBegin(i) ==
    /\ i \in 1 .. Len(tasks)
    /\ tasks[i].pc = "idle"
    /\ tasks[i].notified
    /\ tasks' = SetTask(i, "polling", FALSE)
    /\ UNCHANGED <<table, mutator, panicked, last, before, session, replica, client,
                   current_query, server, sync, sched, next_msg_id, responses, wakers,
                   responses_lock, callbacks>>

\* poll: wakers.lock().insert(msg_id, waker)
PollRegister(i) ==
    /\ i \in 1 .. Len(tasks)
    /\ tasks[i].pc = "polling"
    /\ wakers' = wakers \cup {i}
    /\ tasks' = SetTask(i, "registered", tasks[i].notified)
    /\ UNCHANGED <<table, mutator, panicked, last, before, session, replica, client,
                   current_query, server, sync, sched, next_msg_id, responses, responses_lock,
                   callbacks>>

\* poll: responses.try_lock(); WouldBlock returns Poll::Pending.
PollTryLock(i) ==
    /\ i \in 1 .. Len(tasks)
    /\ tasks[i].pc = "registered"
    /\ IF responses_lock = None
       THEN /\ responses_lock' = Holder("poll", i)
            /\ tasks' = SetTask(i, "locked", tasks[i].notified)
       ELSE /\ tasks' = SetTask(i, "idle", tasks[i].notified)
            /\ UNCHANGED responses_lock
    /\ UNCHANGED <<table, mutator, panicked, last, before, session, replica, client,
                   current_query, server, sync, sched, next_msg_id, responses, wakers, callbacks>>

\* poll: responses.remove(&msg_id).map_or(Poll::Pending, Poll::Ready), and
\* the guard is dropped.
PollTake(i) ==
    /\ i \in 1 .. Len(tasks)
    /\ tasks[i].pc = "locked"
    /\ responses_lock' = None
    /\ responses' = responses \ {i}
    /\ tasks' = IF i \in responses
                THEN SetTask(i, "ready", FALSE)
                ELSE SetTask(i, "idle", tasks[i].notified)
    /\ UNCHANGED <<table, mutator, panicked, last, before, session, replica, client,
                   current_query, server, sync, sched, next_msg_id, wakers, callbacks>>

Poll(i) == PollBegin(i) \/ PollRegister(i) \/ PollTryLock(i) \/ PollTake(i)

\* Server::process on AioResult::Recv(Ok(m)): the block given to the pool.
RecvArrive(i) ==
    /\ i \in 1 .. Len(callbacks)
    /\ callbacks[i] = "sent"
    /\ callbacks' = [callbacks EXCEPT ![i] = "spawned"]
    /\ UNCHANGED <<table, mutator, panicked, last, before, session, replica, client,
                   current_query, server, sync, sched, next_msg_id, responses, wakers,
                   responses_lock, tasks>>
\* responses.lock()
RecvLock(i) ==
    /\ i \in 1 .. Len(callbacks)
    /\ callbacks[i] = "spawned"
    /\ responses_lock = None
    /\ responses_lock' = Holder("recv", i)
    /\ callbacks' = [callbacks EXCEPT ![i] = "locked"]
    /\ UNCHANGED <<table, mutator, panicked, last, before, session, replica, client,
                   current_query, server, sync, sched, next_msg_id, responses, wakers, tasks>>
\* r.insert(resp.req_id, resp.msg), and the guard is dropped.
RecvStore(i) ==
    /\ i \in 1 .. Len(callbacks)
    /\ callbacks[i] = "locked"
    /\ responses' = responses \cup {i}
    /\ responses_lock' = None
    /\ callbacks' = [callbacks EXCEPT ![i] = "stored"]
    /\ UNCHANGED <<table, mutator, panicked, last, before, session, replica, client,
                   current_query, server, sync, sched, next_msg_id, wakers, tasks>>
\* wakers.lock().remove(&resp.req_id).map(|w| w.wake())
RecvWake(i) ==
    /\ i \in 1 .. Len(callbacks)
    /\ callbacks[i] = "stored"
    /\ wakers' = wakers \ {i}
    /\ tasks' = IF i \in wakers /\ tasks[i].pc # "ready"
                THEN SetTask(i, tasks[i].pc, TRUE)
                ELSE tasks
    /\ callbacks' = [callbacks EXCEPT ![i] = "done"]
    /\ UNCHANGED <<table, mutator, panicked, last, before, session, replica, client,
                   current_query, server, sync, sched, next_msg_id, responses, responses_lock>>

Recv(i) == RecvArrive(i) \/ RecvLock(i) \/ RecvStore(i) \/ RecvWake(i)

NextFutures ==
    \/ ServerRequest
    \/ \E i \in MsgIds : PollBegin(i)
    \/ \E i \in MsgIds : PollRegister(i)
    \/ \E i \in MsgIds : PollTryLock(i)
    \/ \E i \in MsgIds : PollTake(i)
    \/ \E i \in MsgIds : RecvArrive(i)
    \/ \E i \in MsgIds : RecvLock(i)
    \/ \E i \in MsgIds : RecvStore(i)
    \/ \E i \in MsgIds : RecvWake(i)

SpecFutures == InitOn({<< >>}) /\ [][NextFutures]_vars

\* The pool's threads keep running every task and every callback block.
SpecFuturesFair ==
    /\ SpecFutures
    /\ \A i \in MsgIds : WF_vars(Poll(i)) /\ WF_vars(Recv(i))

\* ------------------------------------------------------------------ scheduler
\* A spawned process: the pid that supervises it, its channel, how many
\* messages were sent to it, the messages passed to its process_message and
\* the ProcessState it last returned.
Proc(supv, rx, sent, got, state) ==
    [supv |-> supv, rx |-> rx, sent |-> sent, got |-> got, state |-> state]
Msg(from, msg) == <<from, msg>>
MainPid == 0
Pids == 1 .. MaxProcs
Threads == 1 .. NumThreads

\* Context::spawn_sup from the main context: the task goes to the injector.
Spawn(supervise) ==
    /\ next_pid <= MaxProcs
    /\ injector' = Append(injector, next_pid)
    /\ procs' = Append(procs, Proc(IF supervise THEN Some(MainPid) ELSE None,
                                   << >>, 0, << >>, "Waiting"))
    /\ next_pid' = next_pid + 1
    /\ UNCHANGED <<table, mutator, panicked, last, before, session, replica, client,
                   current_query, server, sync, futures, work_qus, running, main_rx>>

\* Context::send from the main context to a process that has not finished.
Send(to_pid) ==
    /\ to_pid \in 1 .. Len(procs)
    /\ procs[to_pid].state = "Waiting"
    /\ procs[to_pid].sent < MaxMsgs
    /\ procs' = [procs EXCEPT ![to_pid].rx = Append(@, Msg(MainPid, procs[to_pid].sent + 1)),
                              ![to_pid].sent = @ + 1]
    /\ UNCHANGED <<table, mutator, panicked, last, before, session, replica, client,
                   current_query, server, sync, futures, next_pid, injector, work_qus,
                   running, main_rx>>

\* find_task: the oldest task of the worker's own queue; when that queue is
\* empty, a batch of the injector's oldest tasks, of which the first is taken
\* and the rest put in the worker's queue; when the injector is empty too,
\* the oldest task of the first other queue that has one.
find_task(w) ==
    IF Len(work_qus[w]) > 0
    THEN {[task |-> Some(Head(work_qus[w])), injector |-> injector,
           work_qus |-> [work_qus EXCEPT ![w] = Tail(@)]]}
    ELSE IF Len(injector) > 0
    THEN {[task |-> Some(Head(injector)),
           injector |-> SubSeq(injector, n + 1, Len(injector)),
           work_qus |-> [work_qus EXCEPT ![w] = SubSeq(injector, 2, n)]] :
             n \in 1 .. Len(injector)}
    ELSE LET have == {v \in Threads : Len(work_qus[v]) > 0}
         IN  IF have = {}
             THEN {[task |-> None, injector |-> injector, work_qus |-> work_qus]}
             ELSE LET v == CHOOSE x \in have : \A y \in have : x <= y
                  IN  {[task |-> Some(Head(work_qus[v])), injector |-> injector,
                        work_qus |-> [work_qus EXCEPT ![v] = Tail(@)]]}

\* The worker loop up to the task it found.
WorkerFind(w) ==
    /\ running[w] = None
    /\ \E found \in find_task(w) :
          /\ IsSome(found.task)
          /\ running' = [running EXCEPT ![w] = found.task]
          /\ injector' = found.injector
          /\ work_qus' = found.work_qus
    /\ UNCHANGED <<table, mutator, panicked, last, before, session, replica, client,
                   current_query, server, sync, futures, next_pid, procs, main_rx>>

\* The worker loop on the task it found: try_recv on the task's channel; with
\* a message, process_message, after which a task that returned Waiting goes
\* back to the worker's queue and any other result goes to the supervisor;
\* without one, the task goes back to the worker's queue.
WorkerRun(w) ==
    /\ IsSome(running[w])
    /\ LET pid == Unwrap(running[w])
           task == procs[pid]
       IN  IF Len(task.rx) = 0
           THEN /\ work_qus' = [work_qus EXCEPT ![w] = Append(@, pid)]
                /\ UNCHANGED <<procs, main_rx>>
           ELSE \E state \in {"Waiting", "Finished"} :
                   /\ procs' = [procs EXCEPT ![pid].rx = Tail(@),
                                             ![pid].got = Append(@, Head(task.rx)),
                                             ![pid].state = state]
                   /\ work_qus' = IF state = "Waiting"
                                  THEN [work_qus EXCEPT ![w] = Append(@, pid)]
                                  ELSE work_qus
                   /\ main_rx' = IF state # "Waiting" /\ task.supv = Some(MainPid)
                                 THEN Append(main_rx, Msg(pid, state))
                                 ELSE main_rx
    /\ running' = [running EXCEPT ![w] = None]
    /\ UNCHANGED <<table, mutator, panicked, last, before, session, replica, client,
                   current_query, server, sync, futures, next_pid, injector>>

NextScheduler ==
    \/ \E supervise \in BOOLEAN : Spawn(supervise)
    \/ \E to_pid \in Pids : Send(to_pid)
    \/ \E w \in Threads : WorkerFind(w)
    \/ \E w \in Threads : WorkerRun(w)

SpecScheduler == InitOn({<< >>}) /\ [][NextScheduler]_vars

\* The worker threads keep running.
SpecSchedulerFair ==
    /\ SpecScheduler
    /\ \A w \in Threads : WF_vars(WorkerFind(w)) /\ WF_vars(WorkerRun(w))

\* ------------------------------------------------------------------ properties
\* The text before the last call and the text now.
OldText == text(last.pre.pieces, last.pre.sources)
NewText == text(pieces, sources)
\* s[lo..hi] of a text.
Sub(s, lo, hi) == SubSeq(s, lo + 1, hi)
\* A piece lies within its source.
InBounds(p, srcs) == p.source < Len(srcs) /\ p.start + p.length <= Len(srcs[p.source + 1])
IsPrefix(s, t) == Len(s) <= Len(t) /\ SubSeq(t, 1, Len(s)) = s

\* C1: an undo that pops an action leaves the text as it was immediately
\* before the call that recorded the action (so undoing every call leads back
\* to the text the table was made with).
C1_UndoRestoresText ==
    (last.op = "undo" /\ IsSome(last.res)) =>
        /\ ~panicked
        /\ NewText = text(Unwrap(last.res).pieces, Unwrap(last.res).sources)

\* C2: an undo that pops an action leaves the piece sequence exactly as it
\* was before the call that recorded the action.
C2_UndoRestoresPieces ==
    (last.op = "undo" /\ IsSome(last.res)) =>
        /\ ~panicked
        /\ pieces = Unwrap(last.res).pieces

\* C3: delete_range(start, end) with 0 <= start < end <= len() returns and
\* leaves the old text without its bytes start..end.
C3_DeleteRemovesRange ==
    last.op = "delete_range" =>
        /\ ~panicked
        /\ NewText = Sub(OldText, 0, last.a) \o Sub(OldText, last.b, Len(OldText))

\* C4: insert_range(s, at) with s non-empty and 0 <= at <= len() leaves the
\* old text with s spliced in at at.
C4_InsertSplices ==
    (last.op = "insert_range" /\ Len(last.s) > 0) =>
        /\ OldText # Panicked
        /\ NewText = Sub(OldText, 0, last.a) \o last.s \o Sub(OldText, last.a, Len(OldText))

C4_Witness ==
    /\ last.op = "insert_range" /\ Len(last.s) > 0
    /\ Len(last.pre.pieces) >= 3
    /\ Len(pieces) = Len(last.pre.pieces) + 2
    /\ last.a > Len(last.pre.sources[1])

\* C5: copy_range(s, e) with 0 <= s <= e <= len() returns text()[s..e] and
\* leaves sources, pieces, history and next_action_id as they were.
C5_CopyRangeIsSlice ==
    (last.op = "copy_range" /\ NewText # Panicked) =>
        /\ last.res = Slice(NewText, last.a, last.b)
        /\ last.pre = Table

C5_Witness ==
    /\ last.op = "copy_range"
    /\ Len(pieces) >= 3
    /\ \E i \in 1 .. Len(pieces) : pieces[i].length = 0
    /\ last.a < Offset(pieces, 1)
    /\ last.b > Offset(pieces, Len(pieces) - 1)
    /\ last.res = Slice(NewText, last.a, last.b)

\* The first index i >= k, and the last index i < k, at which character c
\* starts in the text t.
TextFind(t, c, k) ==
    LET hits == {i \in k .. Len(t) - 1 : t[i + 1] = c[1]}
    IN  IF hits = {} THEN None ELSE Some(CHOOSE i \in hits : \A j \in hits : i <= j)
TextRfind(t, c, k) ==
    LET hits == {i \in 0 .. Min(k, Len(t)) - 1 : t[i + 1] = c[1]}
    IN  IF hits = {} THEN None ELSE Some(CHOOSE i \in hits : \A j \in hits : i >= j)

\* C6: index_of(c, k) is the smallest i >= k with text()[i] = c and
\* last_index_of(c, k) the largest i < k with text()[i] = c, None when there
\* is none.
C6_SearchAgrees ==
    NewText # Panicked =>
        /\ last.op = "index_of" => last.res = Ok(TextFind(NewText, last.s, last.a))
        /\ last.op = "last_index_of" => last.res = Ok(TextRfind(NewText, last.s, last.a))

C6_Witness ==
    /\ last.op = "last_index_of"
    /\ Len(pieces) >= 3
    /\ \E i \in 1 .. Len(pieces) : pieces[i].length = 0
    /\ last.a > Offset(pieces, Len(pieces) - 1)
    /\ last.res.ok /\ IsSome(last.res.v)
    /\ Unwrap(last.res.v) < Offset(pieces, 1)

\* C7: every piece lies within its source: start + length <= the length of
\* sources[source].
C7_PieceBounds == \A i \in 1 .. Len(pieces) : InBounds(pieces[i], sources)

\* C8: no call removes a source or shortens one: what each source held before
\* the last call is a prefix of what it holds now.
C8_SourcesAppendOnly ==
    /\ Len(sources) >= Len(last.pre.sources)
    /\ \A i \in 1 .. Len(last.pre.sources) : IsPrefix(last.pre.sources[i], sources[i])

\* C9: while a mutator from insert_mutator(at) on text T is open the text is
\* T[..at] + S + T[at..], S being the pushes and pops applied to an empty
\* stack; and undoing the action of the finished mutator gives T back.
C9_MutatorSplice ==
    /\ session.open =>
          LET T == text(session.pre.pieces, session.pre.sources)
          IN  T # Panicked =>
                NewText = Sub(T, 0, session.at) \o session.typed \o Sub(T, session.at, Len(T))
    /\ (last.op = "undo" /\ IsSome(last.res) /\ Unwrap(last.res).op = "finish") =>
          /\ ~panicked
          /\ NewText = text(Unwrap(last.res).pieces, Unwrap(last.res).sources)

IsOneMore(h, id) ==
    /\ Len(history) = Len(h) + 1
    /\ SubSeq(history, 1, Len(h)) = h
    /\ history[Len(history)].id = id

Appended == Len(history) = Len(last.pre.history) + 1
\* The action the last call appended has an id above every older one.
NewestIsLargest ==
    \A k \in 1 .. Len(history) - 1 : history[k].id < history[Len(history)].id

C12_ReplicaConverges ==
    last.op = "sync" =>
        /\ ~replica.panicked
        /\ replica.pieces = pieces
        /\ text(replica.pieces, replica.sources) = text(pieces, sources)
        /\ LET kept == {i \in 1 .. Len(history) : history[i].id >= last.a}
           IN  /\ Len(last.res) = Cardinality(kept)
               /\ \A k \in 1 .. Len(last.res) :
                     \E i \in kept :
                        /\ history[i] = last.res[k]
                        /\ Cardinality({j \in kept : j < i}) = k - 1

\* The piece sequence ps after the changes cs of a peer's action, each enacted
\* in order, written out for each of RemoteChanges; None where a change names
\* an index out of range.
Enacted(ps, cs) ==
    LET empty == Piece(0, 0, 0)
    IN  IF cs = << >> THEN Some(ps)
        ELSE IF cs = <<Insert(0, empty)>> THEN Some(<<empty>> \o ps)
        ELSE IF cs = <<Insert(0, empty), Delete(1, ps[1])>> THEN Some(<<empty>> \o Tail(ps))
        ELSE IF cs = <<Modify(0, ps[1], empty)>> THEN Some(<<empty>> \o Tail(ps))
        ELSE None

\* C13: apply_action(a) with a.id < next_action_id panics and leaves pieces,
\* history and next_action_id as they were; with a.id >= next_action_id it
\* enacts the changes of a in order and sets next_action_id to a.id + 1
\* (and panics, next_action_id unchanged, when a change is out of range).
C13_StaleActionRejected ==
    last.op = "apply_action" =>
        LET stale == last.a < last.pre.next_action_id
            want == Enacted(last.pre.pieces, last.s)
        IN  /\ history = last.pre.history
            /\ stale =>
                  /\ panicked
                  /\ pieces = last.pre.pieces
                  /\ next_action_id = last.pre.next_action_id
            /\ (~stale /\ IsSome(want)) =>
                  /\ ~panicked
                  /\ pieces = Unwrap(want)
                  /\ next_action_id = last.a + 1
            /\ (~stale /\ ~IsSome(want)) =>
                  /\ panicked
                  /\ next_action_id = last.pre.next_action_id

C13_Witness ==
    /\ last.op = "apply_action"
    /\ last.a = last.pre.next_action_id - 1
    /\ Len(last.pre.history) >= 1
    /\ Len(last.s) = 2
    /\ panicked

\* C15: chars(i) read forward yields text()[i..] in order, and read backward
\* yields text()[i], text()[i-1], ..., text()[0], wherever i falls in its
\* piece.
C15_CharsBothWays ==
    last.op = "chars" =>
        /\ last.res.forward = SubSeq(NewText, last.a + 1, Len(NewText))
        /\ last.res.backward = Reversed(SubSeq(NewText, 1, last.a + 1))
\* ------------------------------------------------------------------ command forms
\* The parts of a pending command, read off its keys: ks[lo+1 .. hi].
Keys(ks, lo, hi) == SubSeq(ks, lo + 1, hi)
\* A register prefix: nothing, or the quote key and a register name.
IsRegister(ks) == ks = << >> \/ (Len(ks) = 2 /\ ks[1] = "\"")
RegisterOf(ks) == IF ks = << >> THEN "\"" ELSE ks[2]
\* A count: decimal digits, whose value is 1 when there are none.
IsCount(ks) == \A k \in 1 .. Len(ks) : is_digit(ks[k])
RECURSIVE DecimalValue(_)
DecimalValue(ks) ==
    IF Len(ks) = 0 THEN 0
    ELSE 10 * DecimalValue(SubSeq(ks, 1, Len(ks) - 1)) + to_digit(ks[Len(ks)])
CountOf(ks) == IF ks = << >> THEN 1 ELSE DecimalValue(ks)
\* The operator keys and the motions written with the keys typed here.
OperatorOf ==
    ("d" :> <<"Delete">>) @@ ("c" :> <<"Change">>) @@ ("y" :> <<"Yank">>) @@
    ("<" :> <<"Indent", "Backward">>) @@ (">" :> <<"Indent", "Forward">>)
MotionOf ==
    (<<"w">> :> <<"Word", "Forward">>) @@ (<<"e">> :> <<"EndOfWord", "Forward">>) @@
    (<<"g", "e">> :> <<"EndOfWord", "Backward">>) @@
    [ks \in {<<"f", k>> : k \in ParseKeys} |-> <<"NextChar", ks[2], "place_on", "Forward">>]
\* The text objects, which are motions after an operator only.
ObjectOf == (<<"i", "w">> :> <<"Inner", "Word">>)

\* C16: ["r][n] op [m] motion parses to Edit{op, op_count n, motion count m,
\* target_register r}, with n and m 1 and r the unnamed register when absent;
\* ["r][n]x parses to Edit{Delete, op_count n, Char(Forward) count 1}; and
\* [n] motion parses to Move with count n.
C16_ParseDecomposes ==
    LET s == parsed.s
        n == Len(s)
    IN  /\ \A a \in {0, 2}, b \in 0 .. n - 1, d \in 1 .. n :
              LET r == Keys(s, 0, a)
                  cnt == Keys(s, a, b)
                  m == Keys(s, b + 1, d)
                  mk == Keys(s, d, n)
              IN  (/\ a <= b /\ b + 1 <= d
                   /\ s[b + 1] \in DOMAIN OperatorOf
                   /\ IsRegister(r) /\ IsCount(cnt) /\ IsCount(m)
                   /\ mk \in DOMAIN MotionOf \cup DOMAIN ObjectOf)
                  => parsed.res = ParseOk(Edit(OperatorOf[s[b + 1]], CountOf(cnt),
                                               Motion(CountOf(m), (MotionOf @@ ObjectOf)[mk]),
                                               RegisterOf(r)))
        /\ \A a \in {0, 2} :
              (/\ a <= n - 1 /\ s[n] = "x"
               /\ IsRegister(Keys(s, 0, a)) /\ IsCount(Keys(s, a, n - 1)))
              => /\ parsed.res.kind = "Ok"
                 /\ parsed.res.v.cmd = "Edit"
                 /\ parsed.res.v.op = <<"Delete">>
                 /\ parsed.res.v.op_count = CountOf(Keys(s, a, n - 1))
                 /\ parsed.res.v.mo = Motion(1, <<"Char", "Forward">>)
        /\ \A a \in 0 .. n :
              (IsCount(Keys(s, 0, a)) /\ Keys(s, a, n) \in DOMAIN MotionOf)
              => parsed.res = ParseOk(Move(Motion(CountOf(Keys(s, 0, a)),
                                                  MotionOf[Keys(s, a, n)])))

\* A register, both counts, an operator and a motion in one pending command.
C16_Witness ==
    /\ parsed.s = <<"\"", "y", "2", "d", "3", "w">>
    /\ parsed.res.kind = "Ok"
    /\ parsed.res.v.op_count = 2
    /\ parsed.res.v.mo.count = 3
    /\ parsed.res.v.target_register = "y"

\* The pending commands that end where more keys are required: r alone, the
\* quote key alone, and a register prefix and a count followed by nothing, by
\* the leader key or z, by a motion key that takes an argument, or by an
\* operator and a count with no motion or with the first key of a motion or
\* of a text object.
OpenMotions == {<< >>, <<"f">>, <<"F">>, <<"t">>, <<"T">>, <<"g">>}
Awaits(s) ==
    /\ s # << >>
    /\ \/ s = <<"r">>
       \/ s = <<"\"">>
       \/ \E a \in {0, 2}, b \in 0 .. Len(s) :
             /\ a <= b
             /\ IsRegister(Keys(s, 0, a))
             /\ IsCount(Keys(s, a, b))
             /\ LET rest == Keys(s, b, Len(s))
                IN  \/ rest \in OpenMotions \cup {<<" ">>, <<"z">>}
                    \/ /\ rest # << >>
                       /\ rest[1] \in DOMAIN OperatorOf
                       /\ \E c \in 1 .. Len(rest) :
                             /\ IsCount(Keys(rest, 1, c))
                             /\ Keys(rest, c, Len(rest)) \in OpenMotions \cup {<<"i">>, <<"a">>}

\* C17: Command::parse returns IncompleteCommand exactly for the pending
\* commands that end where more keys are required, never a command for them,
\* and its UnknownCommand carries the whole pending string.
C17_ParseClassifies ==
    /\ (parsed.res.kind = "IncompleteCommand") <=> Awaits(parsed.s)
    /\ parsed.res.kind = "UnknownCommand" => parsed.res.raw = parsed.s
    /\ parsed.s # << >> => parsed.res.kind \in {"Ok", "IncompleteCommand", "UnknownCommand"}

\* A count, an operator and a motion key without its argument.
C17_Witness ==
    /\ parsed.s = <<"2", "d", "f">>
    /\ parsed.res.kind = "IncompleteCommand"

\* ------------------------------------------------------------------ editor properties
\* The buffer's text before the last event, and the command the event executed.
PreText == text(handled.pre.pieces, handled.pre.sources)
Executed(ops) ==
    /\ handled.event = "char"
    /\ parsed.res.kind = "Ok"
    /\ parsed.res.v.cmd = "Edit"
    /\ parsed.res.v.op \in ops

\* C14: every mutator the editor takes from insert_mutator is finished: none
\* goes out of scope unfinished, and none is open once normal mode has
\* handled a key.
C14_MutatorsFinished ==
    /\ dropped = 0
    /\ (mode = "Normal" /\ ~panicked) => ~mutator.open

\* C18: after normal mode handled the key c with the pending keys p, the
\* pending keys are p and c exactly when Command::parse returned
\* IncompleteCommand and none otherwise; an UnknownCommand or InvalidCommand
\* leaves table, cursor and registers as they were; Escape leaves no pending
\* key.
C18_PendingProtocol ==
    /\ (handled.event = "char" /\ ~panicked) =>
          /\ parsed.s = handled.pre.pending_buf \o <<handled.c>>
          /\ (pending_buf = parsed.s) <=> (parsed.res.kind = "IncompleteCommand")
          /\ parsed.res.kind # "IncompleteCommand" => pending_buf = << >>
          /\ parsed.res.kind \in {"UnknownCommand", "InvalidCommand"} =>
                /\ Table = [x \in DOMAIN Table |-> handled.pre[x]]
                /\ registers = handled.pre.registers
                /\ cursor_index = handled.pre.cursor_index
    /\ handled.event = "escape" => pending_buf = << >>

\* An unknown key after two pending keys.
C18_Witness ==
    /\ handled.event = "char"
    /\ Len(handled.pre.pending_buf) = 2
    /\ parsed.res.kind = "UnknownCommand"
    /\ pending_buf = << >>
    /\ Len(history) > 0

\* C19: Edit{Delete} and Edit{Change} on a non-empty range r return, leave
\* the removed text in the target register, the old text without r in the
\* buffer, the cursor at r.start and one more action in history; Change asks
\* for insert mode and Delete does not.
C19_DeleteEffect ==
    (Executed({<<"Delete">>, <<"Change">>}) /\ handled.r.start # handled.r.end
                                            /\ PreText # Panicked) =>
        /\ ~panicked
        /\ parsed.res.v.target_register \in DOMAIN registers
        /\ registers[parsed.res.v.target_register] = Sub(PreText, handled.r.start, handled.r.end)
        /\ NewText = Sub(PreText, 0, handled.r.start)
                        \o Sub(PreText, handled.r.end, Len(PreText))
        /\ cursor_index = handled.r.start
        /\ Len(history) = Len(handled.pre.history) + 1
        /\ SubSeq(history, 1, Len(handled.pre.history)) = handled.pre.history
        /\ handled.result = (IF parsed.res.v.op = <<"Change">> THEN "Insert" ELSE "None")
        /\ (parsed.res.v.op = <<"Change">>) <=> (mode = "Insert")

\* C20: Edit{Yank} leaves sources, pieces, history and the cursor as they
\* were, and changes the registers in the target register alone, which holds
\* the text of the range Edit{Delete} of the same motion and counts removes.
C20_YankOnlyRegister ==
    (Executed({<<"Yank">>}) /\ PreText # Panicked) =>
        LET cmd == parsed.res.v
            pre == handled.pre
            del == execute_delete([cmd EXCEPT !.op = <<"Delete">>],
                                  [sources |-> pre.sources, pieces |-> pre.pieces,
                                   history |-> pre.history,
                                   next_action_id |-> pre.next_action_id, ok |-> TRUE],
                                  pre.cursor_index, pre.registers)
        IN  /\ ~panicked
            /\ Table = [x \in DOMAIN Table |-> pre[x]]
            /\ cursor_index = pre.cursor_index
            /\ mode = "Normal"
            /\ DOMAIN registers = DOMAIN pre.registers \cup {cmd.target_register}
            /\ \A k \in DOMAIN pre.registers \ {cmd.target_register} :
                  registers[k] = pre.registers[k]
            /\ registers[cmd.target_register] = Sub(PreText, del.r.start, del.r.end)

\* A yank into a named register, with the cursor past the start of the text.
C20_Witness ==
    /\ Executed({<<"Yank">>})
    /\ parsed.res.v.target_register = "x"
    /\ cursor_index > 0
    /\ registers["x"] = <<" ">>

\* ------------------------------------------------------------------ motion properties
\* The text a motion ran on, its cursor, and the class of its k-th character,
\* Punctuation read as Regular for the big-word motions.
MotionText == text(pieces, sources)
ClassAt(T, k, bigword) == classes(<<<<T[k + 1]>>>>, bigword)[1]

\* Where the words of T start and where they end: a word is a maximal run of
\* characters of one class other than Whitespace.
WordStarts(T, bigword) ==
    {k \in 0 .. Len(T) - 1 :
        /\ ClassAt(T, k, bigword) # "Whitespace"
        /\ k = 0 \/ ClassAt(T, k - 1, bigword) # ClassAt(T, k, bigword)}
WordEnds(T, bigword) ==
    {k \in 0 .. Len(T) - 1 :
        /\ ClassAt(T, k, bigword) # "Whitespace"
        /\ k = Len(T) - 1 \/ ClassAt(T, k + 1, bigword) # ClassAt(T, k, bigword)}
Least(S) == CHOOSE k \in S : \A j \in S : k <= j
Greatest(S) == CHOOSE k \in S : \A j \in S : k >= j

\* A motion returned (no panic) with no index wrapped below zero.
Returned(r) == r.ok /\ ~r.wrapped

\* The cursors of run_repeated_test on the buffer of the word tests.
WordForwardVisits == (0 :> 5) @@ (5 :> 10) @@ (10 :> 11) @@ (11 :> 13) @@ (13 :> 15) @@ (15 :> 20)
WordBackwardVisits == (20 :> 15) @@ (15 :> 13) @@ (13 :> 11) @@ (11 :> 10) @@ (10 :> 5) @@ (5 :> 0)

\* C24: Word(Forward) lands on the start of the next word and Word(Backward)
\* on the start of the current-or-previous word, never before index 0 nor
\* past the end of the text; on the buffer of the word tests the visits are
\* those the tests list.
C24_WordMotion ==
    (last.op = "range" /\ last.s[1] = "Word") =>
        LET T == MotionText
            i == last.a
            r == last.res
            ahead == {k \in WordStarts(T, FALSE) : k > i}
            behind == {k \in WordStarts(T, FALSE) : k < i}
        IN  /\ Returned(r)
            /\ 0 <= r.end /\ r.end <= Len(T)
            /\ (last.s[2] = "Forward" /\ ahead # {}) => r.end = Least(ahead)
            /\ (last.s[2] = "Backward" /\ behind # {}) => r.end = Greatest(behind)
            /\ (T = WordText /\ last.s[2] = "Forward" /\ i \in DOMAIN WordForwardVisits)
                   => r.end = WordForwardVisits[i]
            /\ (T = WordText /\ last.s[2] = "Backward" /\ i \in DOMAIN WordBackwardVisits)
                   => r.end = WordBackwardVisits[i]

\* The cursors of run_repeated_test for the end-of-word motions.
EndForwardVisits == (0 :> 3) @@ (3 :> 8) @@ (8 :> 10) @@ (10 :> 12) @@ (12 :> 13) @@ (13 :> 18)
                        @@ (18 :> 23)
EndBigForwardVisits == (0 :> 3) @@ (3 :> 8) @@ (8 :> 13) @@ (13 :> 18) @@ (18 :> 23)

\* C25: EndOfWord(Forward) and EndOfBigWord(Forward) return, for every
\* cursor, and land on the last character of the run under the cursor, or of
\* the next run when the cursor is on that character already or on
\* whitespace: the first word end after the cursor; on the buffer of the word
\* tests the visits are those the tests list.
C25_EndOfWordMotion ==
    (last.op = "range" /\ last.s \in {<<"EndOfWord", "Forward">>, <<"EndOfBigWord", "Forward">>}) =>
        LET T == MotionText
            i == last.a
            r == last.res
            bigword == last.s[1] = "EndOfBigWord"
            ahead == {k \in WordEnds(T, bigword) : k > i}
            visits == IF bigword THEN EndBigForwardVisits ELSE EndForwardVisits
        IN  /\ Returned(r)
            /\ ahead # {} => r.end = Least(ahead)
            /\ (T = WordText /\ i \in DOMAIN visits) => r.end = visits[i]

\* How many pairs of parentheses are open before the k-th character of T, and
\* the pairs of T: an opening parenthesis and the closing one that brings the
\* depth back.
RECURSIVE Depth(_, _)
Depth(T, k) ==
    IF k = 0 THEN 0
    ELSE Depth(T, k - 1) + (IF T[k] = "(" THEN 1 ELSE IF T[k] = ")" THEN -1 ELSE 0)
Closes(T, o, c) ==
    /\ o < c /\ T[o + 1] = "(" /\ T[c + 1] = ")"
    /\ Depth(T, c + 1) = Depth(T, o)
    /\ \A k \in o + 1 .. c : Depth(T, k) > Depth(T, o)
Enclosing(T, i) ==
    {p \in (0 .. Len(T) - 1) \X (0 .. Len(T) - 1) : Closes(T, p[1], p[2]) /\ p[1] <= i /\ i <= p[2]}
Innermost(T, i) == CHOOSE p \in Enclosing(T, i) : \A q \in Enclosing(T, i) : q[1] <= p[1]

\* C26: with the cursor on a delimiter of a balanced pair of parentheses or
\* inside it, An(Block('(')) is the range from the innermost enclosing
\* opening parenthesis to its closing one and Inner(Block('(')) that range
\* without the two; on the buffer of the block tests An from index 5 is 4..6
\* and Inner from index 1 is 2..8.
C26_BlockObject ==
    (last.op = "range" /\ last.s \in {<<"An", "Block", "(">>, <<"Inner", "Block", "(">>}
        /\ Enclosing(MotionText, last.a) # {}) =>
        LET p == Innermost(MotionText, last.a)
            r == last.res
        IN  /\ Returned(r)
            /\ last.s[1] = "An" => (r.start = p[1] /\ r.end = p[2])
            /\ last.s[1] = "Inner" => (r.start = p[1] + 1 /\ r.end = p[2] - 1)

\* The text T with every Punctuation character replaced by a Regular one,
\* and the buffer's table holding that text instead of its own.
Regularized(T) == [k \in 1 .. Len(T) |-> IF class(<<T[k]>>) = "Punctuation" THEN "a" ELSE T[k]]
RegularizedBuf == [Buf EXCEPT !.sources = <<Regularized(MotionText)>>]
Unbig(mo) == <<(IF mo[1] = "BigWord" THEN "Word" ELSE "EndOfWord"), mo[2]>>

\* C27: BigWord(dir) returns the target Word(dir) returns on the text with
\* every Punctuation character replaced by a Regular one, and EndOfBigWord(dir)
\* the target EndOfWord(dir) returns on that text, for every text, cursor and
\* direction.
C27_BigWordIsWordRegularized ==
    (last.op = "range" /\ last.s[1] \in {"BigWord", "EndOfBigWord"}) =>
        LET w == Motion_range(RegularizedBuf, last.a, Motion(1, Unbig(last.s)))
        IN  /\ last.res.ok = w.ok
            /\ last.res.wrapped = w.wrapped
            /\ last.res.end = w.end

\* The lines of T: where the line holding index i starts, where the line
\* starting at s ends (the index of its newline, or the length of T), and
\* how long it is without its newline.
LineStart(T, i) == Greatest({s \in 0 .. i : s = 0 \/ T[s] = "\n"})
LineEnd(T, s) == Least({e \in s .. Len(T) : e = Len(T) \/ T[e + 1] = "\n"})
LineLength(T, s) == LineEnd(T, s) - s
LineTargets(T, i) ==
    LET s == LineStart(T, i)
        next == LineEnd(T, s) + 1
    IN  [Forward |-> IF next < Len(T) THEN {next} ELSE {},
         Backward |-> IF s > 0 THEN {LineStart(T, s - 1)} ELSE {}]

\* C28: Line(Forward) and Line(Backward) with count 1 return, without
\* arithmetic underflow, the index at column min(current column, length of the
\* target line) of the next and the previous line, also when the target line
\* is the last one and has no trailing newline; on "abc\ndef\nghi\n" from
\* index 4 Forward gives 8 and Backward gives 0.
C28_LineMotion ==
    (last.op = "range" /\ last.s[1] = "Line") =>
        LET T == MotionText  i == last.a  r == last.res
            column == i - LineStart(T, i)
        IN  \A to \in LineTargets(T, i)[last.s[2]] :
                /\ Returned(r)
                /\ r.end = to + Min(column, LineLength(T, to))

\* C29: NextChar { c, place_before: false, direction } lands on the nearest
\* c strictly after (Forward) or strictly before (Backward) the cursor, with
\* place_before: true one position short of it on the cursor's side, and
\* where c does not occur in that direction the target is the cursor.
C29_NextChar ==
    (last.op = "range" /\ last.s[1] = "NextChar") =>
        LET T == MotionText  i == last.a  r == last.res
            forward == last.s[4] = "Forward"
            occurs == {k \in 0 .. Len(T) - 1 : T[k + 1] = last.s[2]
                                                /\ IF forward THEN k > i ELSE k < i}
            nearest == IF forward THEN Least(occurs) ELSE Greatest(occurs)
            short == IF last.s[3] = "place_on" THEN 0 ELSE IF forward THEN -1 ELSE 1
        IN  /\ Returned(r)
            /\ r.end = IF occurs = {} THEN i ELSE nearest + short

\* ------------------------------------------------------------------ command properties
\* The command the last key executed, a Put among them, and the lines of a
\* text: what lies between its newlines, a last line without one included.
Ran(kinds) ==
    /\ handled.event = "char"
    /\ parsed.res.kind = "Ok"
    /\ parsed.res.v.cmd \in kinds
RECURSIVE Lines(_)
Lines(T) ==
    IF Len(T) = 0 THEN << >>
    ELSE LET e == LineEnd(T, 0)
         IN  <<SubSeq(T, 1, e)>> \o Lines(SubSeq(T, e + 2, Len(T)))
LineNumber(T, i) == Cardinality({k \in 1 .. Min(i, Len(T)) : T[k] = "\n"})

\* C21: Put with a register holding r inserts r once, with one Action: where
\* r ends with a newline its lines follow the cursor's line as whole lines and
\* every other line is as it was, on the last line of the text too; else r is
\* inserted at cursor_index. The cursor is within the text or at its end.
C21_PutPlacement ==
    (Ran({"Put"}) /\ parsed.res.v.source_register \in DOMAIN handled.pre.registers
        /\ handled.pre.cursor_index <= Len(PreText)) =>
        LET r == handled.pre.registers[parsed.res.v.source_register]
            at == handled.pre.cursor_index
            L == Lines(PreText)
            k == LineNumber(PreText, at)
        IN  /\ ~panicked
            /\ Len(history) = Len(handled.pre.history) + 1
            /\ IF r[Len(r)] = "\n"
               THEN k < Len(L) =>
                      Lines(NewText) = SubSeq(L, 1, k + 1) \o Lines(r) \o SubSeq(L, k + 2, Len(L))
               ELSE NewText = Sub(PreText, 0, at) \o r \o Sub(PreText, at, Len(PreText))

\* C22: Put whose source register has no entry returns EmptyRegister(name)
\* and leaves the text, the pieces, the history, the cursor and the registers
\* as they were.
C22_PutEmptyRegister ==
    (Ran({"Put"}) /\ parsed.res.v.source_register \notin DOMAIN handled.pre.registers) =>
        /\ ~panicked
        /\ handled.result = EmptyRegister(parsed.res.v.source_register)
        /\ NewText = PreText
        /\ pieces = handled.pre.pieces
        /\ history = handled.pre.history
        /\ cursor_index = handled.pre.cursor_index
        /\ registers = handled.pre.registers

\* A p on the register that the p before it removed, after text was put in.
C22_Witness ==
    /\ Ran({"Put"})
    /\ handled.c = "p"
    /\ handled.result = EmptyRegister("\"")
    /\ handled.pre.last_command = Some(Put(1, "\"", TRUE))
    /\ Len(history) = 2

\* n copies of a text, and the editor before the last event as a table.
RECURSIVE Copies(_, _)
Copies(s, n) == IF n = 0 THEN << >> ELSE s \o Copies(s, n - 1)
PreBuf == [sources |-> handled.pre.sources, pieces |-> handled.pre.pieces,
           history |-> handled.pre.history, next_action_id |-> handled.pre.next_action_id,
           ok |-> TRUE]

\* C23: Repeat{count: n} after the insert-mode entry inserts at the cursor n
\* copies of the text typed in the most recent insert session and advances
\* the cursor by n times its length; after a Put, JoinLine or Edit it executes
\* that command with its count replaced by n; with no command recorded it
\* returns InvalidCommand and changes nothing.
C23_Repeat ==
    (Ran({"Repeat"}) /\ handled.pre.cursor_index <= Len(PreText)) =>
        LET n == parsed.res.v.count
            pre == handled.pre
            at == pre.cursor_index
            again == execute(with_count(Unwrap(pre.last_command), n), PreBuf, at, pre.registers)
        IN  IF ~IsSome(pre.last_command)
               THEN /\ ~panicked
                    /\ handled.result = NoPreviousCommand
                    /\ Table = [x \in DOMAIN Table |-> pre[x]]
                    /\ cursor_index = at /\ registers = pre.registers
               ELSE IF Unwrap(pre.last_command).cmd = "ChangeMode"
               THEN /\ ~panicked
                    /\ NewText = Sub(PreText, 0, at) \o Copies(pre.typed, n)
                                  \o Sub(PreText, at, Len(PreText))
                    /\ cursor_index = at + n * Len(pre.typed)
               ELSE /\ panicked = ~again.t.ok
                    /\ again.t.ok =>
                          /\ NewText = text(again.t.pieces, again.t.sources)
                          /\ cursor_index = again.cursor_index
                          /\ registers = again.registers
                          /\ handled.result = again.result

\* C30: Undo{count: 1} as the first command after a command that changed the
\* buffer (Edit with Delete, Change, ReplaceChar, NewLineAndEnterMode or
\* Indent, Put, JoinLine with count 1) leaves the text that command found.
C30_OneUndoStep ==
    (Ran({"Undo"}) /\ parsed.res.v.count = 1 /\ handled.pre.base.fresh) =>
        /\ ~panicked
        /\ NewText = handled.pre.base.text

\* ------------------------------------------------------------------ search properties
\* The occurrences of q in T: the indices where a copy of q starts.
Occurrences(T, q) ==
    {i \in 0 .. Len(T) - Len(q) : Sub(T, i, i + Len(q)) = q}
\* C31: with a query q set, next_query_index(from, Forward, false) from an
\* index of the text returns the first occurrence of q at or after from, None
\* iff there is none, and next_query_index(from, Backward, false) returns the
\* last occurrence of q that ends at or before from.
C31_QuerySearch ==
    (last.op = "next_query_index" /\ IsSome(current_query) /\ last.a < len(pieces)) =>
        LET q == Unwrap(current_query)
            T == text(pieces, sources)
            from == last.a
            after == {i \in Occurrences(T, q) : i >= from}
            prior == {i \in Occurrences(T, q) : i + Len(q) <= from}
            found == IF last.s = "Forward" THEN after ELSE prior
        IN  /\ ~panicked
            /\ last.res = IF found = {} THEN None
                          ELSE IF last.s = "Forward" THEN Some(Least(found))
                          ELSE Some(Greatest(found))

\* ------------------------------------------------------------------ parser properties
\* C35: when Command::parse turns a string into a command, each of its
\* non-empty proper prefixes parses to IncompleteCommand or to a command.
C35_PrefixConsistent ==
    parsed.res.kind = "Ok" =>
        \A k \in 1 .. Len(parsed.s) - 1 :
            Command_parse(SubSeq(parsed.s, 1, k)).kind \in {"IncompleteCommand", "Ok"}
C35_Witness ==
    /\ parsed.s = <<"2", "d", "i", "w">>
    /\ parsed.res.kind = "Ok"
    /\ \A k \in 1 .. 3 : Command_parse(SubSeq(parsed.s, 1, k)).kind = "IncompleteCommand"

\* C33: a command (Move, Edit, Put, Undo, JoinLine, Repeat) that finds the
\* cursor within the text or at its end, and returns, leaves it within the
\* resulting text or at its end.
C33_CursorInText ==
    (/\ Ran({"Move", "Edit", "Put", "Undo", "JoinLine", "Repeat"})
     /\ handled.pre.cursor_index <= len(handled.pre.pieces)
     /\ ~panicked) =>
        cursor_index \in 0 .. len(pieces)

\* The delete_range calls that executing cmd issues on the table t, in order:
\* the arguments of each and len() at the call. JoinLine computes ln - 1 for
\* each line; Delete and Change call it once copy_range has returned;
\* ReplaceChar calls it at the cursor; Repeat executes the recorded command.
RECURSIVE join_deletes(_, _, _)
join_deletes(t, cursor, count) ==
    LET ln == next_line_index(t, cursor)
        call == [start |-> ln - 1, end |-> ln, len |-> len(t.pieces)]
    IN  IF count = 0 \/ ~t.ok THEN << >>
        ELSE <<call>> \o join_deletes(join_lines(t, cursor, 1), cursor, count - 1)
RECURSIVE delete_calls(_, _, _, _)
delete_calls(cmd, last_cmd, t, cursor) ==
    CASE cmd.cmd = "JoinLine" -> join_deletes(t, cursor, cmd.count)
      [] cmd.cmd = "Edit" /\ cmd.op \in {<<"Delete">>, <<"Change">>} ->
           LET out == execute_delete(cmd, t, cursor, << >>)
           IN  IF out.r.start = out.r.end
                  \/ copy_range(t.pieces, t.sources, out.r.start, out.r.end) = Panicked
               THEN << >>
               ELSE <<[start |-> out.r.start, end |-> out.r.end, len |-> len(t.pieces)]>>
      [] cmd.cmd = "Edit" /\ cmd.op[1] = "ReplaceChar" ->
           <<[start |-> cursor, end |-> cursor + 1, len |-> len(t.pieces)]>>
      [] cmd.cmd = "Repeat" /\ IsSome(last_cmd) /\ Unwrap(last_cmd).cmd # "ChangeMode" ->
           delete_calls(with_count(Unwrap(last_cmd), cmd.count), None, t, cursor)
      [] OTHER -> << >>

\* C34: every delete_range(start, end) call that executing a command issues
\* has 0 <= start < end <= len().
C34_DeletePrecondition ==
    Ran({"Edit", "JoinLine", "Repeat"}) =>
        LET calls == delete_calls(parsed.res.v, handled.pre.last_command, PreBuf,
                                  handled.pre.cursor_index)
        IN  \A k \in 1 .. Len(calls) :
                /\ 0 <= calls[k].start
                /\ calls[k].start < calls[k].end
                /\ calls[k].end <= calls[k].len

\* ------------------------------------------------------------------ counted motion properties
\* The motion mo with count 1 applied n times from the cursor at, the cursor
\* moved to each target: where it lands, and whether each application
\* returned with the cursor on a character.
RECURSIVE Repeated(_, _, _, _)
Repeated(t, at, mo, n) ==
    LET r == Motion_range(t, at, Motion(1, mo))
    IN  IF n = 0 THEN [ok |-> TRUE, end |-> at]
        ELSE IF at \notin 0 .. len(t.pieces) - 1 \/ ~Returned(r) THEN [ok |-> FALSE, end |-> at]
        ELSE Repeated(t, r.end, mo, n - 1)

\* C36: where the motion with count 1 can be applied n times, each from the
\* target of the one before, the motion with count n returns and its target is
\* the position they reach.
C36_CountIsRepetition ==
    last.op = "range_counted" =>
        LET one == Repeated(Buf, last.a, last.s.mo, last.s.count)
        IN  one.ok => /\ Returned(last.res)
                      /\ last.res.end = one.end

\* ------------------------------------------------------------------ server properties
\* C37: a SyncFile for an open file is answered Ack iff its version is above
\* the file's current_version, and then the file takes the version and the
\* text; otherwise the answer is VersionConflict with the server's version
\* and text and no file changes. Whatever the request, no file's
\* current_version decreases and its contents change only when its
\* current_version grows.
C37_VersionDiscipline ==
    /\ (reply.req.kind = "SyncFile" /\ reply.req.id \in DOMAIN reply.pre) =>
          LET id == reply.req.id
              was == reply.pre[id]
          IN  IF reply.req.version > was.current_version
              THEN /\ reply.resp = Ack
                   /\ open_files = [reply.pre EXCEPT
                                       ![id].current_version = reply.req.version,
                                       ![id].contents = reply.req.new_text]
              ELSE /\ reply.resp = VersionConflict(id, reply.req.version,
                                                   was.current_version, was.contents)
                   /\ open_files = reply.pre
    /\ \A id \in DOMAIN reply.pre \cap DOMAIN open_files :
          /\ open_files[id].current_version >= reply.pre[id].current_version
          /\ open_files[id].contents # reply.pre[id].contents
                => open_files[id].current_version > reply.pre[id].current_version
C37_Witness ==
    /\ reply.req.kind = "SyncFile"
    /\ reply.resp = Ack
    /\ reply.pre[reply.req.id].current_version = 1
    /\ Cardinality(DOMAIN open_files) = 2

\* ------------------------------------------------------------------ sync properties
\* C38: with one client and no other writer, no SyncFile is answered with
\* VersionConflict, the buffer's conflict flag is never set, and once an Ack
\* has been handled the buffer's version is the server's current_version.
C38_LoneClientNoConflict ==
    /\ \A k \in 1 .. Len(replies) : replies[k].resp.kind # "VersionConflict"
    /\ ~currently_in_conflict
    /\ (last.op = "response" /\ last.s = <<"Ack">>)
          => version = open_files[SyncedFile].current_version

\* C40: when the buffer stays out of conflict, the server's contents are in
\* the end the buffer's text, and stay so once the text no longer changes.
C40_AutosyncPropagates ==
    <>[](~currently_in_conflict) =>
        <>[](open_files[SyncedFile].contents = text(pieces, sources))

\* ------------------------------------------------------------------ response properties
\* C39: once the response of a request has been stored, the request's future
\* in the end completes with it, whatever the polls of this and of the other
\* futures and the receive callbacks do in between.
C39_NoLostWakeup ==
    \A i \in MsgIds :
        (i \in 1 .. Len(callbacks) /\ callbacks[i] \in {"stored", "done"})
            ~> (i \in 1 .. Len(tasks) /\ tasks[i].pc = "ready")

\* ------------------------------------------------------------------ scheduler properties
\* C32: every message sent to a spawned process that has not finished is in
\* the end passed to its process_message, the messages of a sender in the
\* order sent, whatever other processes wait without messages and whenever
\* the process was spawned; the final result of a supervised process is sent
\* to its supervisor as a message from the process.
C32_MessageDelivery ==
    /\ \A p \in Pids : \A k \in 1 .. MaxMsgs :
          (p \in 1 .. Len(procs) /\ procs[p].sent >= k)
             ~> (p \in 1 .. Len(procs)
                   /\ (Len(procs[p].got) >= k \/ procs[p].state # "Waiting"))
    /\ [](\A p \in 1 .. Len(procs) :
             /\ \A k \in 1 .. Len(procs[p].got) : procs[p].got[k] = Msg(MainPid, k)
             /\ (procs[p].state # "Waiting" /\ procs[p].supv = Some(MainPid))
                   => \E k \in 1 .. Len(main_rx) : main_rx[k] = Msg(p, procs[p].state))
====
